---- MODULE Spec2Model ----
(***************************************************************************)
(* Model of the trade-simulation engine of backtest_engine.py:             *)
(* simulate_trades run bar by bar over a price series.                     *)
(*                                                                         *)
(* Numbers are exact fixed-point integers:                                 *)
(*   - a price (close, entry_price, sl, tp, atr) is a number of ticks;     *)
(*   - a lot is a number of hundredths (lot 0.01 is 1), because the code   *)
(*     rounds every lot to 2 decimals;                                     *)
(*   - a balance or pnl is a number of (tick * 0.01 lot), so that          *)
(*     pnl = price difference * lot needs no division.                     *)
(* With a tick of 0.0025, price 1.1000 is 440 ticks and balance 10000.00   *)
(* is 400000000 units.                                                     *)
(* A not-a-number value of a dataframe column is the empty set, a defined  *)
(* value v is the set {v}; None is the empty set, an open position p is    *)
(* {p}.                                                                    *)
(***************************************************************************)
EXTENDS Integers, Sequences, FiniteSets, TLC

\* number of bars of the longest dataframe explored
MaxBars == 3

\* close prices a bar can take, in ticks (440 is 1.1000)
Closes == {438, 440, 442}

\* defined ATR values of a bar, in ticks (a rolling mean of true ranges)
AtrValues == {0, 1}

\* initial_balance arguments explored (400000000 is 10000.00)
InitialBalances == {2, 350, 400000000}

\* config.get("atr_sl_multiplier", 2), config.get("atr_tp_multiplier", 4)
sl_mult == 2
tp_mult == 4

\* RISK_PCT = config.get("risk_percentage", 1.0)
RISK_PCT == 1

VARIABLES
    pc,               \* "loop" while simulate_trades iterates, "done" after return
    initial_balance,  \* the initial_balance argument
    df,               \* the rows of the dataframe read so far: [close, atr]
    signals,          \* the signals read so far: 1 BUY, -1 SELL, 0 HOLD
    idx,              \* the loop index: number of bars processed
    current_balance,
    open_position,    \* None or {[type, entry_price, entry_idx, sl, tp, lot]}
    trades,           \* list of closed trades
    equity_curve,     \* list of balances, one per processed bar
    metrics,          \* None, or the dict returned by compute_metrics
    bars,             \* the price series given to calculate_indicators_vectorized
    profile,          \* the strategy profile of the run
    frame,            \* the dataframe with its indicator columns
    gsignals,         \* the series returned by generate_signals
    previous,         \* None, or the inputs and results of the run before
    config,           \* the strategy options present in config.yaml
    result,           \* None, or the record returned by run_backtest
    live_trading,     \* config.get("live_trading", False) of TheBot.py
    paper_trade,      \* config.get("paper_trade", False)
    DRY_RUN,          \* the --dry-run flag
    ONCE,             \* the --once flag
    mt5,              \* None, or the imported MetaTrader5 module
    mt5_ready,        \* the local mt5_ready of run_starter_loop
    cycle,            \* number of the polling cycle, 0 before the first
    sym_idx,          \* symbols of the cycle the for loop has gone through
    analyzed,         \* per symbol: None, or what the cycle's iteration did
    fetches,          \* per symbol: fetch_mt5_rates calls of the cycle
    failed_before,    \* symbols whose fetch failed in the cycle before
    proposed_changes, \* the items of proposed_changes.json, <<>> if absent
    archive,          \* whether proposed_changes_executed.json holds items
    order_send,       \* the requests mt5.order_send got in the cycle
    rates,            \* what the two fetches of one analyze_symbol call give
    analysis,         \* None, or what that analyze_symbol call returned
    WEBHOOK_SECRET,   \* None, or the shared secret of webhook_server.py
    request,          \* None, or the last POST /webhook: body and signature
    response,         \* None, or the answer to it: status and count
    proposed_file,    \* proposed_changes.json where its existence is
                      \* followed: None if absent, else {its items}
    file_before,      \* proposed_changes.json as that request found it
    executed_file,    \* the items of proposed_changes_executed.json
    read_items,       \* `items` of process_proposed_changes: the list read
    executed,         \* `executed` of process_proposed_changes
    item_idx,         \* the place in read_items of the item handled next
    archive_before,   \* the archive as the running call found it
    hook_pc,          \* "idle", or "write" between the read and the write
                      \* of append_proposed
    existing,         \* `existing` of append_proposed, extended
    written,          \* the records save_proposed_change has written
    handled,          \* ids of the items process_proposed_changes handled
    accepted,         \* ids of the items append_proposed has written
    EXPECTED_TOKEN,   \* None, or ws_server_token of config.yaml
    CONNECTED,        \* the set CONNECTED of ws_server.py
    connections,      \* per connection: its token and where its handler is
    last_broadcast    \* None, or the last call of broadcast

\* the state of TheBot.py
bot_state == <<live_trading, paper_trade, DRY_RUN, ONCE, mt5, mt5_ready,
               cycle, sym_idx, analyzed, fetches, failed_before,
               proposed_changes, archive, order_send, rates, analysis>>

\* the state of webhook_server.py
webhook_state == <<WEBHOOK_SECRET, request, response, file_before>>

\* the state of the two files of proposed changes and of the calls that
\* read and write them
files_state == <<proposed_file, executed_file, read_items, executed,
                 item_idx, archive_before, hook_pc, existing, written,
                 handled, accepted>>

\* the state of ws_server.py
ws_state == <<EXPECTED_TOKEN, CONNECTED, connections, last_broadcast>>

service_state == <<webhook_state, files_state, ws_state>>

vars == <<pc, initial_balance, df, signals, idx, current_balance,
          open_position, trades, equity_curve, metrics,
          bars, profile, frame, gsignals, previous, config, result,
          bot_state, service_state>>

\* the state outside simulate_trades
outside_simulate ==
    <<metrics, bars, profile, frame, gsignals, previous, config, result,
      bot_state, service_state>>

\* the state of simulate_trades and compute_metrics
simulate_state == <<initial_balance, df, signals, idx, current_balance,
                    open_position, trades, equity_curve, metrics, previous,
                    config, result, bot_state, service_state>>

None == {}
NaN == {}

\* webhook_server.py and ws_server.py have not been started and no call
\* reads or writes the files of proposed changes
ServiceIdle ==
    /\ WEBHOOK_SECRET = None
    /\ request = None
    /\ response = None
    /\ proposed_file = None
    /\ file_before = None
    /\ executed_file = <<>>
    /\ read_items = <<>>
    /\ executed = <<>>
    /\ item_idx = 0
    /\ archive_before = <<>>
    /\ hook_pc = "idle"
    /\ existing = <<>>
    /\ written = {}
    /\ handled = <<>>
    /\ accepted = {}
    /\ EXPECTED_TOKEN = None
    /\ CONNECTED = {}
    /\ connections = <<>>
    /\ last_broadcast = None

\* TheBot.py has not been started
BotIdle ==
    /\ live_trading = FALSE
    /\ paper_trade = FALSE
    /\ DRY_RUN = FALSE
    /\ ONCE = FALSE
    /\ mt5 = None
    /\ mt5_ready = FALSE
    /\ cycle = 0
    /\ sym_idx = 0
    /\ analyzed = <<>>
    /\ fetches = <<>>
    /\ failed_before = {}
    /\ proposed_changes = <<>>
    /\ archive = FALSE
    /\ order_send = {}
    /\ rates = <<>>
    /\ analysis = None

\* the value of a defined column entry, the record of an open position
Num(x) == CHOOSE v \in x : TRUE
Pos(x) == CHOOSE p \in x : TRUE

Abs(x) == IF x < 0 THEN -x ELSE x
Max(a, b) == IF a >= b THEN a ELSE b

\* the greatest common divisor of a >= 0 and b >= 0
RECURSIVE GCD(_, _)
GCD(a, b) == IF b = 0 THEN a ELSE GCD(b, a % b)

\* the strategy options read from the top level of config.yaml
ConfigOptions == {"risk_percentage", "atr_sl_multiplier", "atr_tp_multiplier"}

\* the sum of a sequence of integers
RECURSIVE SeqSum(_)
SeqSum(s) == IF s = <<>> THEN 0 ELSE Head(s) + SeqSum(Tail(s))

\* round(num/den) to the nearest integer, ties to the even one (den > 0)
RoundHalfEven(num, den) ==
    LET q == num \div den
        r == num % den
    IN  IF 2 * r < den THEN q
        ELSE IF 2 * r > den THEN q + 1
        ELSE IF q % 2 = 0 THEN q ELSE q + 1

\* rows and signals simulate_trades can be given by run_backtest: the signal
\* of a bar whose atr is not-a-number is 0 (generate_signals' valid mask
\* compares atr with >=, which is False for NaN)
Rows == [close : Closes, atr : {NaN} \cup {{a} : a \in AtrValues}]
SignalValues == {-1, 0, 1}

----------------------------------------------------------------------------
(* Exit check, lines 151-214 *)

HitsSL_strict(p, price) ==
    IF p.type = "BUY" THEN price < p.sl ELSE price > p.sl

\* the stop-loss test of the open position
HitsSL(p, price) ==
    IF p.type = "BUY" THEN price <= p.sl ELSE price >= p.sl

HitsTP_strict(p, price) ==
    IF p.type = "BUY" THEN price > p.tp ELSE price < p.tp

\* the take-profit test of the open position
HitsTP(p, price) ==
    IF p.type = "BUY" THEN price >= p.tp ELSE price <= p.tp

ExitReason_tpfirst(p, price) ==
    IF HitsTP(p, price) THEN "TP"
    ELSE IF HitsSL(p, price) THEN "SL"
    ELSE "NONE"

\* the if / elif of the exit check: SL is tested first
ExitReason(p, price) ==
    IF HitsSL(p, price) THEN "SL"
    ELSE IF HitsTP(p, price) THEN "TP"
    ELSE "NONE"

ExitPrice_swapped(p, reason) ==
    IF reason = "SL" THEN p.tp ELSE p.sl

\* the level the trade is closed at
ExitPrice(p, reason) ==
    IF reason = "SL" THEN p.sl ELSE p.tp

Pnl_longonly(p, exit_price) ==
    (exit_price - p.entry_price) * p.lot

\* pnl of closing p at exit_price
Pnl(p, exit_price) ==
    IF p.type = "BUY"
    THEN (exit_price - p.entry_price) * p.lot
    ELSE (p.entry_price - exit_price) * p.lot

\* the dict appended to trades
TradeRecord(p, i, reason) ==
    [entry_idx   |-> p.entry_idx,
     exit_idx    |-> i,
     type        |-> p.type,
     entry_price |-> p.entry_price,
     exit_price  |-> ExitPrice(p, reason),
     lot         |-> p.lot,
     pnl         |-> Pnl(p, ExitPrice(p, reason)),
     reason      |-> reason]

ExitCheck_breakeven(pos, bal, trs, price, i) ==
    IF pos = None
    THEN [open_position |-> pos, current_balance |-> bal, trades |-> trs]
    ELSE LET p == Pos(pos)
             reason == ExitReason(p, price)
         IN  IF reason = "NONE"
             THEN [open_position |-> {[p EXCEPT !.sl = p.entry_price]},
                   current_balance |-> bal, trades |-> trs]
             ELSE [open_position |-> None,
                   current_balance |-> bal + Pnl(p, ExitPrice(p, reason)),
                   trades |-> Append(trs, TradeRecord(p, i, reason))]

\* the whole exit check on bar i with close price: the position, balance
\* and trade list after it
ExitCheck(pos, bal, trs, price, i) ==
    IF pos = None
    THEN [open_position |-> pos, current_balance |-> bal, trades |-> trs]
    ELSE LET p == Pos(pos)
             reason == ExitReason(p, price)
         IN  IF reason = "NONE"
             THEN [open_position |-> pos, current_balance |-> bal, trades |-> trs]
             ELSE [open_position |-> None,
                   current_balance |-> bal + Pnl(p, ExitPrice(p, reason)),
                   trades |-> Append(trs, TradeRecord(p, i, reason))]

----------------------------------------------------------------------------
(* Entry check, lines 216-260 *)

EntryGuard_always(pos, sig) == sig # 0

EntryGuard_flip(pos, sig) ==
    /\ sig # 0
    /\ \/ pos = None
       \/ Pos(pos).type # (IF sig = 1 THEN "BUY" ELSE "SELL")

\* if open_position is None and signals.iloc[idx] != 0
EntryGuard(pos, sig) == pos = None /\ sig # 0

StopLoss_tpmult(sig, entry_price, atr) ==
    IF sig = 1 THEN entry_price - atr * tp_mult ELSE entry_price + atr * tp_mult

\* sl of a new position
StopLoss(sig, entry_price, atr) ==
    IF sig = 1 THEN entry_price - atr * sl_mult ELSE entry_price + atr * sl_mult

\* tp of a new position
TakeProfit(sig, entry_price, atr) ==
    IF sig = 1 THEN entry_price + atr * tp_mult ELSE entry_price - atr * tp_mult

\* sl_dist: entry_price - sl for BUY, sl - entry_price for SELL
SlDist(sig, entry_price, sl) ==
    IF sig = 1 THEN entry_price - sl ELSE sl - entry_price

LotSize_nofloor(bal, sl_dist) ==
    IF sl_dist > 0
    THEN RoundHalfEven(bal * RISK_PCT, 100 * sl_dist)
    ELSE 1

\* position sizing, in hundredths of a lot:
\* max(round(balance * (RISK_PCT/100) / sl_dist, 2), 0.01), or 0.01
LotSize(bal, sl_dist) ==
    IF sl_dist > 0
    THEN Max(RoundHalfEven(bal * RISK_PCT, 100 * sl_dist), 1)
    ELSE 1

\* the dict assigned to open_position on bar i
NewPosition(sig, price, atr, bal, i) ==
    LET sl == StopLoss(sig, price, atr)
    IN  [type        |-> IF sig = 1 THEN "BUY" ELSE "SELL",
         entry_price |-> price,
         entry_idx   |-> i,
         sl          |-> sl,
         tp          |-> TakeProfit(sig, price, atr),
         lot         |-> LotSize(bal, SlDist(sig, price, sl))]

EntryCheck_nosignal(pos, bal, sig, row, i) ==
    IF pos = None /\ row.atr # NaN
    THEN {NewPosition(sig, row.close, Num(row.atr), bal, i)}
    ELSE pos

\* the whole entry check on bar i: the position after it
EntryCheck(pos, bal, sig, row, i) ==
    IF EntryGuard(pos, sig)
    THEN {NewPosition(sig, row.close, Num(row.atr), bal, i)}
    ELSE pos

EquityAppend_onchange(eq, bal) ==
    IF eq # <<>> /\ eq[Len(eq)] = bal THEN eq ELSE Append(eq, bal)

\* equity_curve.append(current_balance)
EquityAppend(eq, bal) == Append(eq, bal)

----------------------------------------------------------------------------
(* simulate_trades *)

Init ==
    /\ pc = "loop"
    /\ initial_balance \in InitialBalances
    /\ df = <<>>
    /\ signals = <<>>
    /\ idx = 0
    /\ current_balance = initial_balance
    /\ open_position = None
    /\ trades = <<>>
    /\ equity_curve = <<>>
    /\ metrics = {}
    /\ bars = <<>>
    /\ profile = {}
    /\ frame = <<>>
    /\ gsignals = <<>>
    /\ previous = None
    /\ config = ConfigOptions
    /\ result = None
    /\ BotIdle
    /\ ServiceIdle

LoopBody_entryfirst(row, sig) ==
    LET pos1 == EntryCheck(open_position, current_balance, sig, row, idx)
        x == ExitCheck(pos1, current_balance, trades, row.close, idx)
    IN  /\ df' = Append(df, row)
        /\ signals' = Append(signals, sig)
        /\ open_position' = x.open_position
        /\ current_balance' = x.current_balance
        /\ trades' = x.trades
        /\ equity_curve' = EquityAppend(equity_curve, x.current_balance)
        /\ idx' = idx + 1

\* one iteration of the for loop on the bar (row, sig) at index idx
LoopBody(row, sig) ==
    LET x == ExitCheck(open_position, current_balance, trades, row.close, idx)
    IN  /\ df' = Append(df, row)
        /\ signals' = Append(signals, sig)
        /\ open_position' =
               EntryCheck(x.open_position, x.current_balance, sig, row, idx)
        /\ current_balance' = x.current_balance
        /\ trades' = x.trades
        /\ equity_curve' = EquityAppend(equity_curve, x.current_balance)
        /\ idx' = idx + 1

\* the loop processes the next bar of the dataframe
SimulateBar ==
    /\ pc = "loop"
    /\ idx < MaxBars
    /\ \E row \in Rows, sig \in SignalValues :
          /\ row.atr = NaN => sig = 0
          /\ LoopBody(row, sig)
    /\ UNCHANGED <<pc, initial_balance>>
    /\ UNCHANGED outside_simulate

Return_forceclose ==
    /\ pc = "loop"
    /\ pc' = "done"
    /\ IF open_position = None \/ df = <<>>
       THEN UNCHANGED <<current_balance, open_position, trades>>
       ELSE LET q == Pos(open_position)
                c == df[Len(df)].close
            IN  /\ open_position' = None
                /\ current_balance' = current_balance + Pnl(q, c)
                /\ trades' = Append(trades,
                       [entry_idx |-> q.entry_idx, exit_idx |-> idx - 1,
                        type |-> q.type, entry_price |-> q.entry_price,
                        exit_price |-> c, lot |-> q.lot,
                        pnl |-> Pnl(q, c), reason |-> "END"])
    /\ UNCHANGED <<initial_balance, df, signals, idx, equity_curve>>
    /\ UNCHANGED outside_simulate

\* the dataframe has no more bars: return trades, equity_curve
Return ==
    /\ pc = "loop"
    /\ pc' = "done"
    /\ UNCHANGED <<initial_balance, df, signals, idx, current_balance,
                   open_position, trades, equity_curve>>
    /\ UNCHANGED outside_simulate

Next == SimulateBar \/ Return

Spec == Init /\ [][Next]_vars

----------------------------------------------------------------------------
(* compute_metrics, lines 267-316.  Money fields are in balance units, a   *)
(* cent being 400 units; percentages are in hundredths of a percent,       *)
(* because the code rounds them to 2 decimals.                             *)

\* initial_balance arguments of the runs whose metrics are computed: the
\* percentages multiply a balance by 10000, which must stay below 2^31
MetricsBalances == {2, 350}

\* round(x, 2) of an amount of money x
Round2Money(x) == 400 * RoundHalfEven(x, 400)

\* round(num / den * 100, 2) of a percentage, den > 0
Round2Pct(num, den) == RoundHalfEven(10000 * num, den)

\* max and min of a non-empty list of numbers
SeqMax(s) == CHOOSE m \in {s[k] : k \in 1..Len(s)} :
                 \A k \in 1..Len(s) : s[k] <= m
SeqMin(s) == CHOOSE m \in {s[k] : k \in 1..Len(s)} :
                 \A k \in 1..Len(s) : s[k] >= m

\* the list of the pnl of the trades of a list
PnlList(trs) == [k \in 1..Len(trs) |-> trs[k].pnl]

\* winning = [t for t in trades if t["pnl"] > 0]
Winning(trs) == SelectSeq(trs, LAMBDA t : t.pnl > 0)

Losing_nonpositive(trs) == SelectSeq(trs, LAMBDA t : t.pnl <= 0)

\* losing = [t for t in trades if t["pnl"] < 0]
Losing(trs) == SelectSeq(trs, LAMBDA t : t.pnl < 0)

RECURSIVE TotalPnl_winners(_)
TotalPnl_winners(trs) ==
    IF trs = <<>> THEN 0
    ELSE TotalPnl_winners(Tail(trs))
            + (IF Head(trs).pnl > 0 THEN Head(trs).pnl ELSE 0)

\* total_pnl = sum(t["pnl"] for t in trades)
RECURSIVE TotalPnl(_)
TotalPnl(trs) ==
    IF trs = <<>> THEN 0 ELSE Head(trs).pnl + TotalPnl(Tail(trs))

\* max_dd, rounded: every equity value is compared with the maximum of the
\* whole curve, (equity_array - equity_array.max()) / equity_array.max().
\* The maximum is positive: it is at least equity_curve[0], which is
\* initial_balance because no trade closes on bar 0.
MaxDrawdown(eq) ==
    LET peak == SeqMax(eq)
        drawdown == [t \in 1..Len(eq) |-> eq[t] - peak]
    IN  Round2Pct(SeqMin(drawdown), peak)

\* the sharpe ratio is computed by the formula when len(returns) > 1 and is
\* the constant 0.0 otherwise; returns has len(equity_curve) - 1 elements
SharpeByFormula(eq) == Len(eq) - 1 > 1

Sign(x) == IF x > 0 THEN 1 ELSE IF x < 0 THEN -1 ELSE 0

\* the product of eq[1..n] without eq[t]
RECURSIVE ProdExcept(_, _, _)
ProdExcept(eq, n, t) ==
    IF n = 0 THEN 1
    ELSE (IF n = t THEN 1 ELSE eq[n]) * ProdExcept(eq, n - 1, t)

\* the greatest common divisor of the absolute values of a sequence
RECURSIVE SeqGCD(_)
SeqGCD(s) == IF s = <<>> THEN 0 ELSE GCD(Abs(Head(s)), SeqGCD(Tail(s)))

\* the sign of np.mean(returns) / (np.std(returns) + 1e-10) * np.sqrt(252)
\* with returns = np.diff(equity_array) / equity_array[:-1]: the sign of the
\* sum of the returns, and NaN when there is no return or when a return
\* divides by an equity of 0 (the mean or the deviation is then not finite).
\* The returns do not change when every equity value is divided by a common
\* divisor, which keeps the products small.
SharpeFormulaSign(eq) ==
    LET n == Len(eq) - 1
        g == SeqGCD(eq)
        e == [t \in 1..Len(eq) |-> eq[t] \div g]
        num == [t \in 1..n |-> (e[t + 1] - e[t]) * ProdExcept(e, n, t)]
    IN  IF n < 1 \/ \E t \in 1..n : eq[t] = 0 THEN NaN
        ELSE {Sign(SeqSum(num)) * Sign(ProdExcept(e, n, 0))}

SharpeSign_twopoints(eq) ==
    IF Len(eq) - 1 >= 1 THEN SharpeFormulaSign(eq) ELSE {0}

\* the sign of sharpe: the formula if len(returns) > 1 else 0.0
SharpeSign(eq) ==
    IF SharpeByFormula(eq) THEN SharpeFormulaSign(eq) ELSE {0}

\* the dict compute_metrics returns
compute_metrics(trs, eq, initial) ==
    IF Len(trs) = 0
    THEN [total_trades |-> 0, winning_trades |-> 0, losing_trades |-> 0,
          win_rate |-> 0, total_pnl |-> 0, avg_trade_pnl |-> 0,
          max_win |-> 0, max_loss |-> 0, sharpe_by_formula |-> FALSE,
          sharpe_sign |-> {0},
          max_drawdown |-> 0, final_balance |-> initial, return_pct |-> 0]
    ELSE LET winning == Winning(trs)
             losing == Losing(trs)
             total_pnl == TotalPnl(trs)
             final_balance == IF eq # <<>> THEN eq[Len(eq)] ELSE initial
         IN  [total_trades   |-> Len(trs),
              winning_trades |-> Len(winning),
              losing_trades  |-> Len(losing),
              win_rate       |-> Round2Pct(Len(winning), Len(trs)),
              total_pnl      |-> Round2Money(total_pnl),
              avg_trade_pnl  |-> 400 * RoundHalfEven(total_pnl, 400 * Len(trs)),
              max_win        |-> IF winning # <<>>
                                 THEN Round2Money(SeqMax(PnlList(winning)))
                                 ELSE 0,
              max_loss       |-> IF losing # <<>>
                                 THEN Round2Money(SeqMin(PnlList(losing)))
                                 ELSE 0,
              sharpe_by_formula |-> SharpeByFormula(eq),
              sharpe_sign    |-> SharpeSign(eq),
              max_drawdown   |-> MaxDrawdown(eq),
              final_balance  |-> Round2Money(final_balance),
              return_pct     |-> Round2Pct(final_balance - initial, initial)]

\* run_backtest calls compute_metrics on what simulate_trades returned
ComputeMetrics ==
    /\ pc = "done"
    /\ pc' = "metrics"
    /\ metrics' = compute_metrics(trades, equity_curve, initial_balance)
    /\ UNCHANGED <<initial_balance, df, signals, idx, current_balance,
                   open_position, trades, equity_curve>>
    /\ UNCHANGED <<bars, profile, frame, gsignals, previous, config, result>>
    /\ UNCHANGED <<bot_state, service_state>>

InitMetrics == Init /\ initial_balance \in MetricsBalances

NextMetrics == SimulateBar \/ Return \/ ComputeMetrics

SpecMetrics == InitMetrics /\ [][NextMetrics]_vars

----------------------------------------------------------------------------
(* A second run of simulate_trades and compute_metrics in the same process *)
(* on the dataframe, signals and initial balance of the first run          *)

SecondRun_keeptrades ==
    /\ pc = "metrics"
    /\ pc' = "rerun_loop"
    /\ previous' = {[df |-> df, signals |-> signals, trades |-> trades,
                     equity_curve |-> equity_curve, metrics |-> metrics]}
    /\ df' = <<>>
    /\ signals' = <<>>
    /\ idx' = 0
    /\ equity_curve' = <<>>
    /\ current_balance' = initial_balance
    /\ open_position' = None
    /\ metrics' = {}
    /\ UNCHANGED <<initial_balance, trades>>
    /\ UNCHANGED <<bars, profile, frame, gsignals, config, result>>
    /\ UNCHANGED <<bot_state, service_state>>

\* simulate_trades is called again: lines 141-144 give it a new trade list,
\* a new equity curve, the initial balance and no open position
SecondRun ==
    /\ pc = "metrics"
    /\ pc' = "rerun_loop"
    /\ previous' = {[df |-> df, signals |-> signals, trades |-> trades,
                     equity_curve |-> equity_curve, metrics |-> metrics]}
    /\ df' = <<>>
    /\ signals' = <<>>
    /\ idx' = 0
    /\ trades' = <<>>
    /\ equity_curve' = <<>>
    /\ current_balance' = initial_balance
    /\ open_position' = None
    /\ metrics' = {}
    /\ UNCHANGED initial_balance
    /\ UNCHANGED <<bars, profile, frame, gsignals, config, result>>
    /\ UNCHANGED <<bot_state, service_state>>

\* the loop of the second run processes the bar the first run had at idx
RerunBar ==
    /\ pc = "rerun_loop"
    /\ idx < Len(Pos(previous).df)
    /\ LoopBody(Pos(previous).df[idx + 1], Pos(previous).signals[idx + 1])
    /\ UNCHANGED <<pc, initial_balance>>
    /\ UNCHANGED outside_simulate

\* the second run returns after the last bar
RerunReturn ==
    /\ pc = "rerun_loop"
    /\ idx = Len(Pos(previous).df)
    /\ pc' = "rerun_done"
    /\ UNCHANGED <<initial_balance, df, signals, idx, current_balance,
                   open_position, trades, equity_curve>>
    /\ UNCHANGED outside_simulate

\* compute_metrics on what the second run returned
RerunMetrics ==
    /\ pc = "rerun_done"
    /\ pc' = "rerun_metrics"
    /\ metrics' = compute_metrics(trades, equity_curve, initial_balance)
    /\ UNCHANGED <<initial_balance, df, signals, idx, current_balance,
                   open_position, trades, equity_curve>>
    /\ UNCHANGED <<bars, profile, frame, gsignals, previous, config, result>>
    /\ UNCHANGED <<bot_state, service_state>>

NextRerun ==
    \/ SimulateBar \/ Return \/ ComputeMetrics
    \/ SecondRun \/ RerunBar \/ RerunReturn \/ RerunMetrics

SpecRerun == InitMetrics /\ [][NextRerun]_vars

----------------------------------------------------------------------------
(* calculate_indicators_vectorized, lines 48-102, in exact arithmetic.    *)
(* A defined column value is {[n, d, eps]}: the rational n/d, less a       *)
(* positive amount smaller than any difference between two values when    *)
(* eps is TRUE (the effect of the 1e-10 added to the ADX denominators).    *)
(* Series are numbered from 1, so index t here is bar t-1 of the code.     *)

\* number of bars of the longest price series explored
MaxSeries == 4

\* close prices of the series, and how far high and low are from close
PriceValues == {1, 2, 3}
WickValues == {0, 1}

\* a bar as calculate_indicators_vectorized reads it
InputBars ==
    {[close |-> c, high |-> c + u, low |-> c - u] :
        c \in PriceValues, u \in WickValues}

\* the profiles explored; the first has the usual oversold / overbought
\* thresholds and filters, the second thresholds that filter nothing, the
\* third windows of different lengths
Profiles ==
    {[rsi |-> [period |-> 2, buy_threshold |-> 30, sell_threshold |-> 70],
      macd |-> [fast_period |-> 1, slow_period |-> 3, signal_period |-> 3],
      moving_averages |-> [ema_fast |-> 1, ema_slow |-> 3],
      adx |-> [period |-> 2, min_strength |-> 20],
      atr |-> [period |-> 2, min_volatility_factor |-> 1],
      bollinger |-> [period |-> 4, std_dev |-> 2]],
     [rsi |-> [period |-> 2, buy_threshold |-> 70, sell_threshold |-> 30],
      macd |-> [fast_period |-> 1, slow_period |-> 3, signal_period |-> 3],
      moving_averages |-> [ema_fast |-> 1, ema_slow |-> 3],
      adx |-> [period |-> 2, min_strength |-> 0],
      atr |-> [period |-> 2, min_volatility_factor |-> 0],
      bollinger |-> [period |-> 4, std_dev |-> 2]],
     [rsi |-> [period |-> 1, buy_threshold |-> 70, sell_threshold |-> 30],
      macd |-> [fast_period |-> 1, slow_period |-> 3, signal_period |-> 3],
      moving_averages |-> [ema_fast |-> 1, ema_slow |-> 3],
      adx |-> [period |-> 1, min_strength |-> 0],
      atr |-> [period |-> 3, min_volatility_factor |-> 0],
      bollinger |-> [period |-> 2, std_dev |-> 2]]}

\* the rational n/d (d > 0) in lowest terms
R(n, d) ==
    LET g == GCD(Abs(n), d)
    IN  [n |-> n \div g, d |-> d \div g, eps |-> FALSE]

RSub(x, y) == R(x.n * y.d - y.n * x.d, x.d * y.d)

\* rolling(period) has a value at t iff the window t-period+1..t lies in
\* the series and holds no NaN; first is the first non-NaN index of the
\* rolled series
RollingDefined(first, period, t) == t - period + 1 >= first

\* the window of rolling(period) at t
Window(period, t) == [k \in 1..period |-> t - period + k]

\* close.diff(), its positive part and the positive part of its negation
Delta(b, t) == b[t].close - b[t - 1].close
Gain(b, t) == Max(Delta(b, t), 0)
Loss(b, t) == Max(-Delta(b, t), 0)

\* rsi with the zero-loss convention RSI = 100
RSI_hundred(b, period, t) ==
    IF ~RollingDefined(2, period, t) THEN NaN
    ELSE LET w == Window(period, t)
             g == SeqSum([k \in 1..period |-> Gain(b, w[k])])
             l == SeqSum([k \in 1..period |-> Loss(b, w[k])])
         IN  IF l = 0 THEN {R(100, 1)} ELSE {R(100 * g, g + l)}

\* df["rsi"]: 100 - 100 / (1 + avg_gain / avg_loss), NaN where the window
\* is incomplete and where avg_loss is 0 (avg_loss.replace(0, np.nan))
RSI(b, period, t) ==
    IF ~RollingDefined(2, period, t) THEN NaN
    ELSE LET w == Window(period, t)
             g == SeqSum([k \in 1..period |-> Gain(b, w[k])])
             l == SeqSum([k \in 1..period |-> Loss(b, w[k])])
         IN  IF l = 0 THEN NaN ELSE {R(100 * g, g + l)}

\* ewm(span, adjust=False).mean() at t of a series xs of rationals
RECURSIVE Ewm(_, _, _)
Ewm(xs, span, t) ==
    IF t = 1 THEN xs[1]
    ELSE LET e == Ewm(xs, span, t - 1)
             x == xs[t]
         IN  R(2 * x.n * e.d + (span - 1) * e.n * x.d, x.d * e.d * (span + 1))

CloseSeries(b) == [t \in 1..Len(b) |-> R(b[t].close, 1)]

\* macd = ema_12 - ema_26 as a series
MacdSeries(b, prof) ==
    [t \in 1..Len(b) |->
        RSub(Ewm(CloseSeries(b), prof.macd.fast_period, t),
             Ewm(CloseSeries(b), prof.macd.slow_period, t))]

\* df["macd_hist"] = macd - signal
MacdHist(b, prof, t) ==
    RSub(MacdSeries(b, prof)[t],
         Ewm(MacdSeries(b, prof), prof.macd.signal_period, t))

\* true range: the first bar has no previous close and max skips the NaN
TrueRange(b, t) ==
    IF t = 1 THEN b[t].high - b[t].low
    ELSE Max(b[t].high - b[t].low,
             Max(Abs(b[t].high - b[t - 1].close),
                 Abs(b[t].low - b[t - 1].close)))

ATR_wilderstart(b, period, t) ==
    IF ~RollingDefined(2, period, t) THEN NaN
    ELSE {R(SeqSum([k \in 1..period |-> TrueRange(b, Window(period, t)[k])]),
            period)}

\* df["atr"] = tr.rolling(period).mean()
ATR(b, period, t) ==
    IF ~RollingDefined(1, period, t) THEN NaN
    ELSE {R(SeqSum([k \in 1..period |-> TrueRange(b, Window(period, t)[k])]),
            period)}

DmPlus(b, t) == Max(b[t].high - b[t - 1].high, 0)
DmMinus(b, t) == Max(b[t - 1].low - b[t].low, 0)

\* df["adx"] = 100 * |di_plus - di_minus| / (di_plus + di_minus + 1e-10)
\* with di = dm.rolling(period).mean() / (atr + 1e-10): the factor
\* 1 / (period * (atr + 1e-10)) cancels, leaving
\* 100 * |P - M| / (P + M + a positive infinitesimal)
ADX(b, prof, t) ==
    IF \/ ~RollingDefined(2, prof.adx.period, t)
       \/ ATR(b, prof.atr.period, t) = NaN
    THEN NaN
    ELSE LET w == Window(prof.adx.period, t)
             P == SeqSum([k \in 1..Len(w) |-> DmPlus(b, w[k])])
             M == SeqSum([k \in 1..Len(w) |-> DmMinus(b, w[k])])
         IN  IF P = M THEN {R(0, 1)}
             ELSE {[R(100 * Abs(P - M), P + M) EXCEPT !.eps = TRUE]}

\* bb_mid = close.rolling(period).mean()
BBMid(b, period, t) ==
    IF ~RollingDefined(1, period, t) THEN NaN
    ELSE {R(SeqSum([k \in 1..period |-> b[Window(period, t)[k]].close]),
            period)}

\* the square of std_dev * close.rolling(period).std(), the distance of
\* bb_upper and bb_lower from bb_mid; std is the sample deviation, NaN for
\* a window of one
BBWidth2(b, prof, t) ==
    LET period == prof.bollinger.period
        w == Window(period, t)
        s == SeqSum([k \in 1..period |-> b[w[k]].close])
        q == SeqSum([k \in 1..period |-> b[w[k]].close * b[w[k]].close])
    IN  IF ~RollingDefined(1, period, t) \/ period < 2 THEN NaN
        ELSE {R(prof.bollinger.std_dev * prof.bollinger.std_dev
                   * (period * q - s * s),
                period * (period - 1))}

\* bb_upper (side 1) and bb_lower (side -1): bb_mid + side * sqrt(width2)
BBand(b, prof, t, side) ==
    IF BBWidth2(b, prof, t) = NaN THEN NaN
    ELSE {[mid    |-> Num(BBMid(b, prof.bollinger.period, t)),
           width2 |-> Num(BBWidth2(b, prof, t)),
           side   |-> side]}

\* row t of the dataframe calculate_indicators_vectorized returns
IndicatorRow(b, prof, t) ==
    [close     |-> b[t].close,
     high      |-> b[t].high,
     low       |-> b[t].low,
     rsi       |-> RSI(b, prof.rsi.period, t),
     ema_fast  |-> {Ewm(CloseSeries(b), prof.moving_averages.ema_fast, t)},
     ema_slow  |-> {Ewm(CloseSeries(b), prof.moving_averages.ema_slow, t)},
     macd_hist |-> {MacdHist(b, prof, t)},
     atr       |-> ATR(b, prof.atr.period, t),
     adx       |-> ADX(b, prof, t),
     bb_upper  |-> BBand(b, prof, t, 1),
     bb_mid    |-> BBMid(b, prof.bollinger.period, t),
     bb_lower  |-> BBand(b, prof, t, -1)]

calculate_indicators_vectorized(b, prof) ==
    [t \in 1..Len(b) |-> IndicatorRow(b, prof, t)]

----------------------------------------------------------------------------
(* generate_signals, lines 105-133.  A comparison with NaN is False. *)

GeNum_nanpasses(x, T) ==
    \/ x = NaN
    \/ IF Num(x).eps THEN Num(x).n > T * Num(x).d ELSE Num(x).n >= T * Num(x).d

\* x >= T, x <= T, x > T, x < T for a column value x and a number T
GeNum(x, T) ==
    /\ x # NaN
    /\ IF Num(x).eps THEN Num(x).n > T * Num(x).d ELSE Num(x).n >= T * Num(x).d
LeNum(x, T) == x # NaN /\ Num(x).n <= T * Num(x).d
GtNum(x, T) == x # NaN /\ Num(x).n > T * Num(x).d
LtNum(x, T) ==
    /\ x # NaN
    /\ IF Num(x).eps THEN Num(x).n <= T * Num(x).d ELSE Num(x).n < T * Num(x).d

\* x > y and x < y for two column values without eps
GtCol(x, y) == x # NaN /\ y # NaN /\ Num(x).n * Num(y).d > Num(y).n * Num(x).d
LtCol(x, y) == x # NaN /\ y # NaN /\ Num(x).n * Num(y).d < Num(y).n * Num(x).d

Valid_adxonly(row, prof) == GeNum(row.adx, prof.adx.min_strength)

\* valid = (adx >= min_strength) & (atr >= min_volatility_factor)
Valid(row, prof) ==
    /\ GeNum(row.adx, prof.adx.min_strength)
    /\ GeNum(row.atr, prof.atr.min_volatility_factor)

BuyCond(row, prof) ==
    /\ GtNum(row.macd_hist, 0)
    /\ LeNum(row.rsi, prof.rsi.buy_threshold)
    /\ GtCol(row.ema_fast, row.ema_slow)
    /\ Valid(row, prof)

SellCond_noema(row, prof) ==
    /\ LtNum(row.macd_hist, 0)
    /\ GeNum(row.rsi, prof.rsi.sell_threshold)
    /\ Valid(row, prof)

SellCond(row, prof) ==
    /\ LtNum(row.macd_hist, 0)
    /\ GeNum(row.rsi, prof.rsi.sell_threshold)
    /\ LtCol(row.ema_fast, row.ema_slow)
    /\ Valid(row, prof)

\* the signal of one row: signals starts at 0, signals[buy_cond] = 1 is
\* assigned first and signals[sell_cond] = -1 last
RowSignal(row, prof) ==
    IF SellCond(row, prof) THEN -1
    ELSE IF BuyCond(row, prof) THEN 1
    ELSE 0

generate_signals(fr, prof) ==
    [t \in 1..Len(fr) |-> RowSignal(fr[t], prof)]

----------------------------------------------------------------------------
(* The first half of run_backtest, lines 319-334 *)

\* simulate_trades and compute_metrics have not started
SimulateIdle ==
    /\ initial_balance \in InitialBalances
    /\ df = <<>>
    /\ signals = <<>>
    /\ idx = 0
    /\ current_balance = initial_balance
    /\ open_position = None
    /\ trades = <<>>
    /\ equity_curve = <<>>
    /\ metrics = {}
    /\ previous = None
    /\ config = ConfigOptions
    /\ result = None
    /\ BotIdle
    /\ ServiceIdle

\* all price series of 1..MaxSeries bars
PriceSeries == UNION {[1..n -> InputBars] : n \in 1..MaxSeries}

\* load_csv_data has returned a price series and the profile was found
InitIndicators ==
    /\ pc = "loaded"
    /\ bars \in PriceSeries
    /\ profile \in Profiles
    /\ frame = <<>>
    /\ gsignals = <<>>
    /\ SimulateIdle
    /\ initial_balance = 400000000

\* df = calculate_indicators_vectorized(df, profile)
CalculateIndicators ==
    /\ pc = "loaded"
    /\ pc' = "indicators"
    /\ frame' = calculate_indicators_vectorized(bars, profile)
    /\ UNCHANGED <<bars, profile, gsignals>>
    /\ UNCHANGED simulate_state

\* signals = generate_signals(df, profile)
GenerateSignals ==
    /\ pc = "indicators"
    /\ pc' = "signals"
    /\ gsignals' = generate_signals(frame, profile)
    /\ UNCHANGED <<bars, profile, frame>>
    /\ UNCHANGED simulate_state

NextIndicators == CalculateIndicators \/ GenerateSignals

SpecIndicators == InitIndicators /\ [][NextIndicators]_vars

\* column values of the dataframes generate_signals is applied to directly
Whole(v) == {[n |-> v, d |-> 1, eps |-> FALSE]}
FrameRows ==
    [rsi       : {NaN, Whole(20), Whole(30), Whole(50), Whole(70), Whole(80)},
     macd_hist : {Whole(-1), Whole(0), Whole(1)},
     ema_fast  : {Whole(1), Whole(2)},
     ema_slow  : {Whole(1), Whole(2)},
     adx       : {NaN, Whole(10), Whole(20), Whole(30)},
     atr       : {NaN, Whole(0), Whole(1)}]

\* a one-row dataframe with arbitrary indicator values and a profile
InitSignals ==
    /\ pc = "indicators"
    /\ bars = <<>>
    /\ profile \in Profiles
    /\ frame \in {<<row>> : row \in FrameRows}
    /\ gsignals = <<>>
    /\ SimulateIdle
    /\ initial_balance = 400000000

NextSignals == GenerateSignals

SpecSignals == InitSignals /\ [][NextSignals]_vars

----------------------------------------------------------------------------
(* run_backtest, lines 319-374, from the profile lookup to the result      *)
(* record. A dict is a function from its keys; the empty dict is <<>>.     *)
(* The rows and signals given to simulate_trades are those of bars that    *)
(* do not move (one close, atr 0) and carry one and the same signal, so    *)
(* that runs of many bars stay few: a position opened on such a bar has    *)
(* stop_loss = take_profit = entry_price and is closed by the next bar.    *)
(* An option that config.yaml holds has the value of its default.          *)

\* number of bars of the longest series run_backtest is given
MaxRunBars == 52

\* trades[:50], the trades of the result record
TRADES_IN_RESULT == 50

\* the dict d without key k
Without(d, k) == [x \in DOMAIN d \ {k} |-> d[x]]

\* a profile of config.yaml with every option
CompleteProfile == CHOOSE prof \in Profiles : prof.adx.min_strength = 20

\* PROFILES.get(profile_name, {}): no such profile, a profile with every
\* option, one without rsi.period and one without adx.min_strength
BacktestProfiles ==
    {<<>>,
     CompleteProfile,
     [CompleteProfile EXCEPT !.rsi = Without(CompleteProfile.rsi, "period")],
     [CompleteProfile EXCEPT
         !.adx = Without(CompleteProfile.adx, "min_strength")]}

\* the options calculate_indicators_vectorized subscripts the profile with
IndicatorOptions ==
    {<<"rsi", "period">>,
     <<"moving_averages", "ema_fast">>, <<"moving_averages", "ema_slow">>,
     <<"macd", "fast_period">>, <<"macd", "slow_period">>,
     <<"macd", "signal_period">>,
     <<"atr", "period">>, <<"adx", "period">>,
     <<"bollinger", "period">>, <<"bollinger", "std_dev">>}

\* the options generate_signals subscripts the profile with
SignalOptions ==
    {<<"adx", "min_strength">>, <<"atr", "min_volatility_factor">>,
     <<"rsi", "buy_threshold">>, <<"rsi", "sell_threshold">>}

\* profile[o[1]][o[2]] raises no KeyError for any o of opts
HasAll(prof, opts) ==
    \A o \in opts : o[1] \in DOMAIN prof /\ o[2] \in DOMAIN prof[o[1]]

\* the rows of bars that do not move
FlatRows == [close : {440}, atr : {{0}}]

\* what run_backtest leaves alone outside pc and result
backtest_state == <<initial_balance, df, signals, idx, current_balance,
                    open_position, trades, equity_curve, metrics,
                    bars, profile, frame, gsignals, previous, config,
                    bot_state, service_state>>

\* run_backtest is entered: load_csv_data has returned the series
InitBacktest ==
    /\ pc = "start"
    /\ profile \in BacktestProfiles
    /\ config \in SUBSET ConfigOptions
    /\ result = None
    /\ BotIdle
    /\ ServiceIdle
    /\ initial_balance = 400000000
    /\ df = <<>>
    /\ signals = <<>>
    /\ idx = 0
    /\ current_balance = initial_balance
    /\ open_position = None
    /\ trades = <<>>
    /\ equity_curve = <<>>
    /\ metrics = {}
    /\ bars = <<>>
    /\ frame = <<>>
    /\ gsignals = <<>>
    /\ previous = None

\* profile = PROFILES.get(profile_name, {}); if not profile: return
LookupProfile ==
    /\ pc = "start"
    /\ pc' = IF DOMAIN profile = {} THEN "returned" ELSE "found"
    /\ UNCHANGED result
    /\ UNCHANGED backtest_state

\* df = calculate_indicators_vectorized(df, profile): a KeyError ends the run
BacktestIndicators ==
    /\ pc = "found"
    /\ pc' = IF HasAll(profile, IndicatorOptions) THEN "calculated" ELSE "error"
    /\ UNCHANGED result
    /\ UNCHANGED backtest_state

\* signals = generate_signals(df, profile): a KeyError ends the run;
\* otherwise simulate_trades is entered
BacktestSignals ==
    /\ pc = "calculated"
    /\ pc' = IF HasAll(profile, SignalOptions) THEN "loop" ELSE "error"
    /\ UNCHANGED result
    /\ UNCHANGED backtest_state

\* the loop of simulate_trades processes the next bar; config.get supplies
\* atr_sl_multiplier, atr_tp_multiplier and risk_percentage, present or not
BacktestBar ==
    /\ pc = "loop"
    /\ idx < MaxRunBars
    /\ \E row \in FlatRows, sig \in SignalValues :
          /\ idx > 0 => sig = signals[idx]
          /\ LoopBody(row, sig)
    /\ UNCHANGED <<pc, initial_balance>>
    /\ UNCHANGED outside_simulate

BuildResult_truncatedcount ==
    /\ pc = "metrics"
    /\ pc' = "returned"
    /\ result' =
          LET shown == SubSeq(trades, 1,
                          IF Len(trades) < TRADES_IN_RESULT
                          THEN Len(trades) ELSE TRADES_IN_RESULT)
          IN  {[metrics |-> metrics,
                trades |-> shown,
                total_trades_count |-> Len(shown)]}
    /\ UNCHANGED backtest_state

\* result = {..., "metrics": metrics, "trades": trades[:50],
\* "total_trades_count": len(trades)}; return result
BuildResult ==
    /\ pc = "metrics"
    /\ pc' = "returned"
    /\ result' =
          {[metrics |-> metrics,
            trades |-> SubSeq(trades, 1,
                          IF Len(trades) < TRADES_IN_RESULT
                          THEN Len(trades) ELSE TRADES_IN_RESULT),
            total_trades_count |-> Len(trades)]}
    /\ UNCHANGED backtest_state

NextBacktest ==
    \/ LookupProfile \/ BacktestIndicators \/ BacktestSignals
    \/ BacktestBar \/ Return \/ ComputeMetrics \/ BuildResult

SpecBacktest == InitBacktest /\ [][NextBacktest]_vars

----------------------------------------------------------------------------
(* Helpers of the properties: bars are numbered from 0 as in the code, *)
(* sequences from 1                                                    *)

\* the row and the signal of bar i
BarRow(i) == df[i + 1]
BarSignal(i) == signals[i + 1]

\* a bar was processed by this step, and it is bar idx
BarStep == idx' = idx + 1

\* the row and the signal of the bar processed by this step
StepRow == df'[idx + 1]
StepSignal == signals'[idx + 1]

\* this step appended a trade
TradeClosed == Len(trades') = Len(trades) + 1
LastTrade(trs) == trs[Len(trs)]

\* stop_loss and take_profit as computed from the entry bar i of a position
\* of the given type
EntryBarSL(type, i) ==
    IF type = "BUY"
    THEN BarRow(i).close - Num(BarRow(i).atr) * sl_mult
    ELSE BarRow(i).close + Num(BarRow(i).atr) * sl_mult

EntryBarTP(type, i) ==
    IF type = "BUY"
    THEN BarRow(i).close + Num(BarRow(i).atr) * tp_mult
    ELSE BarRow(i).close - Num(BarRow(i).atr) * tp_mult

\* the exit condition of position p at close price c
SLCond(p, c) == IF p.type = "BUY" THEN c <= p.sl ELSE c >= p.sl
TPCond(p, c) == IF p.type = "BUY" THEN c >= p.tp ELSE c <= p.tp

\* max(round(balance * risk_percentage/100 / sl_distance, 2), 0.01) with
\* sl_distance = |entry_price - stop_loss|, 0.01 when sl_distance <= 0
SpecLot(balance, entry_price, stop_loss) ==
    LET sl_distance == Abs(entry_price - stop_loss)
    IN  IF sl_distance <= 0 THEN 1
        ELSE Max(RoundHalfEven(balance * RISK_PCT, 100 * sl_distance), 1)

----------------------------------------------------------------------------
\* C1: at most one position is open: a step of simulate_trades creates a
\* position (one whose entry index is the current bar) only if no position
\* was open before the bar or the open one was closed by this bar's exit
\* check.
C1_OneOpenPosition ==
    [][ /\ Cardinality(open_position') <= 1
        /\ (BarStep /\ open_position' # None
                    /\ Pos(open_position').entry_idx = idx)
           => (open_position = None \/ TradeClosed) ]_vars

\* a position is open after an earlier one was closed
C1_Witness ==
    /\ open_position # None
    /\ Len(trades) >= 1
    /\ Pos(open_position).entry_idx > LastTrade(trades).exit_idx

\* C2: every recorded trade's exit_price is the stop_loss (reason SL) or the
\* take_profit (reason TP) computed on the trade's entry bar.
C2_ExitPriceIsEntryLevel ==
    \A k \in 1..Len(trades) :
        LET t == trades[k]
        IN  /\ t.reason \in {"SL", "TP"}
            /\ t.reason = "SL" => t.exit_price = EntryBarSL(t.type, t.entry_idx)
            /\ t.reason = "TP" => t.exit_price = EntryBarTP(t.type, t.entry_idx)

\* a trade whose exit_price is not the close of the bar that closed it
C2_Witness ==
    \E k \in 1..Len(trades) :
        /\ trades[k].exit_price # BarRow(trades[k].exit_idx).close
        /\ trades[k].exit_price # trades[k].entry_price

C4_EquityPerBar ==
    /\ Len(equity_curve) = Len(df)
    /\ Len(equity_curve) = idx
    /\ equity_curve # <<>> => equity_curve[Len(equity_curve)] = current_balance
    /\ \A t \in 1..Len(equity_curve) :
          LET prev == IF t = 1 THEN initial_balance ELSE equity_curve[t - 1]
          IN  equity_curve[t] # prev
                 => \E k \in 1..Len(trades) : trades[k].exit_idx = t - 1

\* a position was opened on bar 0, closed with a non-zero pnl on bar 1, and
\* a position is open on bar 2
C4_Witness ==
    /\ Len(equity_curve) = 3
    /\ equity_curve[1] = initial_balance
    /\ equity_curve[2] # equity_curve[1]
    /\ equity_curve[3] = equity_curve[2]
    /\ open_position # None
    /\ Pos(open_position).entry_idx = 2

\* C5: if the open position closes on bar i and bar i's signal is BUY or
\* SELL, a new position is opened on bar i, sized from the balance already
\* updated by the closed trade's pnl.
C5_SameBarReentry ==
    [][ (BarStep /\ TradeClosed /\ StepSignal # 0) =>
          /\ open_position' # None
          /\ current_balance' =
                current_balance + LastTrade(trades').pnl
          /\ LET q == Pos(open_position')
             IN  /\ q.entry_idx = idx
                 /\ q.entry_idx = LastTrade(trades').exit_idx
                 /\ q.type = (IF StepSignal = 1 THEN "BUY" ELSE "SELL")
                 /\ q.lot = SpecLot(current_balance', q.entry_price, q.sl) ]_vars

\* a position opened on the bar that closed the previous trade, whose lot
\* differs from the lot the balance before the close would have given
C5_Witness ==
    /\ open_position # None
    /\ Len(trades) >= 1
    /\ LET q == Pos(open_position)
           t == LastTrade(trades)
       IN  /\ q.entry_idx = t.exit_idx
           /\ q.lot # SpecLot(current_balance - t.pnl, q.entry_price, q.sl)

\* C6: while a position is open and its exit condition is not met on the
\* current bar, a BUY or SELL signal on that bar records no trade, opens no
\* position and leaves the open position and the balance as they were.
C6_SignalIgnoredWhileOpen ==
    [][ (/\ BarStep
         /\ open_position # None
         /\ ~SLCond(Pos(open_position), StepRow.close)
         /\ ~TPCond(Pos(open_position), StepRow.close)
         /\ StepSignal # 0)
        => /\ trades' = trades
           /\ open_position' = open_position
           /\ current_balance' = current_balance ]_vars

\* an open position survived a bar that carried the opposite signal
C6_Witness ==
    /\ open_position # None
    /\ Pos(open_position).entry_idx + 2 <= idx
    /\ BarSignal(idx - 1) # 0
    /\ Pos(open_position).type = (IF BarSignal(idx - 1) = 1 THEN "SELL" ELSE "BUY")

\* C7: a LONG open before a bar closes on it iff close <= stop_loss (reason
\* SL) or close >= take_profit (reason TP), a SHORT iff close >= stop_loss
\* (SL) or close <= take_profit (TP); on every other bar the position stays
\* open and no trade is recorded.
C7_ExitIffLevelCrossed ==
    [][ (BarStep /\ open_position # None) =>
          LET p == Pos(open_position)
              c == StepRow.close
              sl_hit == IF p.type = "BUY" THEN c <= p.sl ELSE c >= p.sl
              tp_hit == IF p.type = "BUY" THEN c >= p.tp ELSE c <= p.tp
          IN  /\ TradeClosed <=> (sl_hit \/ tp_hit)
              /\ TradeClosed =>
                    /\ LastTrade(trades').entry_idx = p.entry_idx
                    /\ LastTrade(trades').exit_idx = idx
                    /\ LastTrade(trades').reason = "SL" => sl_hit
                    /\ LastTrade(trades').reason = "TP" => tp_hit
              /\ ~(sl_hit \/ tp_hit) =>
                    /\ trades' = trades
                    /\ open_position' = open_position ]_vars

\* a trade closed by a bar whose close is exactly a stop_loss that differs
\* from the entry price, after a bar that did not close the position
C7_Witness ==
    \E k \in 1..Len(trades) :
        /\ trades[k].reason = "SL"
        /\ trades[k].exit_price = BarRow(trades[k].exit_idx).close
        /\ trades[k].exit_price # trades[k].entry_price
        /\ trades[k].exit_idx >= trades[k].entry_idx + 2

\* C8: if a bar satisfies both the stop_loss and the take_profit condition
\* of the open position, the trade is closed with reason SL at stop_loss.
C8_StopLossFirst ==
    [][ (/\ BarStep
         /\ open_position # None
         /\ SLCond(Pos(open_position), StepRow.close)
         /\ TPCond(Pos(open_position), StepRow.close))
        => /\ TradeClosed
           /\ LastTrade(trades').reason = "SL"
           /\ LastTrade(trades').exit_price = Pos(open_position).sl ]_vars

\* a LONG and a SHORT entered with ATR 0 were each closed by a bar whose
\* close equals both levels
C8_Witness ==
    \E j, k \in 1..Len(trades) :
        /\ trades[j].type = "BUY"
        /\ trades[k].type = "SELL"
        /\ \A m \in {j, k} :
              /\ BarRow(trades[m].entry_idx).atr = {0}
              /\ BarRow(trades[m].exit_idx).close = trades[m].entry_price

\* the fields a position opened on bar i must have
EntryFieldsOf(q, i) ==
    /\ BarSignal(i) # 0
    /\ BarRow(i).atr # NaN
    /\ q.entry_idx = i
    /\ q.entry_price = BarRow(i).close
    /\ BarSignal(i) = 1 =>
          /\ q.type = "BUY"
          /\ q.sl = q.entry_price - Num(BarRow(i).atr) * sl_mult
          /\ q.tp = q.entry_price + Num(BarRow(i).atr) * tp_mult
    /\ BarSignal(i) = -1 =>
          /\ q.type = "SELL"
          /\ q.sl = q.entry_price + Num(BarRow(i).atr) * sl_mult
          /\ q.tp = q.entry_price - Num(BarRow(i).atr) * tp_mult

\* C9: a position opened on bar i has entry_price = close[i]; a BUY signal
\* opens a LONG with stop_loss = entry - atr[i]*atr_sl_multiplier and
\* take_profit = entry + atr[i]*atr_tp_multiplier, a SELL signal a SHORT
\* with stop_loss = entry + atr[i]*atr_sl_multiplier and take_profit =
\* entry - atr[i]*atr_tp_multiplier.
C9_EntryLevels ==
    open_position # None =>
        EntryFieldsOf(Pos(open_position), Pos(open_position).entry_idx)

\* a SHORT opened on a bar with a non-zero ATR
C9_Witness ==
    /\ open_position # None
    /\ Pos(open_position).type = "SELL"
    /\ BarRow(Pos(open_position).entry_idx).atr = {1}

\* the sizing rule for the open position: the balance at entry is the
\* current balance, which no step changes while the position is open
C10_LotOfOpenPosition ==
    open_position # None =>
        LET q == Pos(open_position)
        IN  /\ q.lot = SpecLot(current_balance, q.entry_price, q.sl)
            /\ q.entry_price = q.sl => q.lot = 1
            /\ q.lot >= 1

\* the position of the example: balance 10000, entry 1.1000, stop 1.0950
C10_Example ==
    /\ open_position # None
    /\ current_balance = 400000000
    /\ Pos(open_position).entry_price = 440
    /\ Pos(open_position).sl = 438

\* C10 as stated: the sizing rule, lot >= 0.01 always, and the example
\* position has lot 20.0.
C10_Original ==
    /\ C10_LotOfOpenPosition
    /\ C10_Example => Pos(open_position).lot = 2000

\* C10 amended: every position opened has lot = max(round(balance_at_entry
\* * risk_percentage/100 / sl_distance, 2), 0.01) with sl_distance =
\* |entry_price - stop_loss|, lot = 0.01 when sl_distance <= 0, hence
\* lot >= 0.01 also when the balance is zero or negative; the example
\* position has lot 20000.0.
C10_LotSizing ==
    /\ C10_LotOfOpenPosition
    /\ C10_Example => Pos(open_position).lot = 2000000

\* a position opened with a negative balance and a non-zero sl_distance
C10_Witness ==
    /\ open_position # None
    /\ current_balance < 0
    /\ Pos(open_position).sl # Pos(open_position).entry_price
    /\ Pos(open_position).lot = 1

\* the sum of the pnl of the trades of a list
RECURSIVE PnlSum(_)
PnlSum(trs) ==
    IF trs = <<>> THEN 0
    ELSE PnlSum(SubSeq(trs, 1, Len(trs) - 1)) + trs[Len(trs)].pnl

\* C11: a trade's pnl is (exit_price - entry_price) * lot for a BUY and
\* (entry_price - exit_price) * lot for a SELL, with the lot the position
\* had since entry, and the balance increases by exactly that pnl on the
\* closing bar.
C11_PnlOnClose ==
    [][ (BarStep /\ TradeClosed) =>
          LET q == Pos(open_position)
              t == LastTrade(trades')
          IN  /\ t.lot = q.lot
              /\ t.type = "BUY" =>
                    t.pnl = (t.exit_price - t.entry_price) * q.lot
              /\ t.type = "SELL" =>
                    t.pnl = (t.entry_price - t.exit_price) * q.lot
              /\ current_balance' = current_balance + t.pnl
              /\ equity_curve'[idx + 1] = current_balance + t.pnl ]_vars

\* a SELL trade and a BUY trade were closed with a non-zero pnl
C11_Witness ==
    \E j, k \in 1..Len(trades) :
        /\ trades[j].type = "SELL" /\ trades[j].pnl # 0
        /\ trades[k].type = "BUY" /\ trades[k].pnl # 0

\* C12: when simulate_trades returns with a position still open, it records
\* no trade for it and leaves the balance alone: the returned list holds
\* trades closed by SL or TP on a processed bar only, and the final equity
\* value is initial_balance plus their pnl.
C12_OpenPositionLeftUnrealized ==
    [][ (pc = "loop" /\ pc' = "done") =>
          /\ trades' = trades
          /\ current_balance' = current_balance
          /\ equity_curve' = equity_curve
          /\ open_position' = open_position
          /\ \A k \in 1..Len(trades') :
                /\ trades'[k].reason \in {"SL", "TP"}
                /\ trades'[k].exit_idx < idx
          /\ equity_curve' # <<>> =>
                equity_curve'[Len(equity_curve')]
                    = initial_balance + PnlSum(trades') ]_vars

\* simulate_trades has returned with a position open whose unrealized
\* result at the last close is not zero
C12_Witness ==
    /\ pc = "done"
    /\ open_position # None
    /\ Pos(open_position).entry_price # df[Len(df)].close

\* the ADX/ATR filter rejects the row: adx < adx.min_strength or
\* atr < atr.min_volatility_factor
FilterFails(row, prof) ==
    \/ LtNum(row.adx, prof.adx.min_strength)
    \/ LtNum(row.atr, prof.atr.min_volatility_factor)

\* the row passes the ADX/ATR filter
FilterPasses(row, prof) ==
    /\ GeNum(row.adx, prof.adx.min_strength)
    /\ GeNum(row.atr, prof.atr.min_volatility_factor)

\* the BUY and SELL rules of the specification, filter apart
BuyRule(row, prof) ==
    /\ GtNum(row.macd_hist, 0)
    /\ LeNum(row.rsi, prof.rsi.buy_threshold)
    /\ GtCol(row.ema_fast, row.ema_slow)
SellRule(row, prof) ==
    /\ LtNum(row.macd_hist, 0)
    /\ GeNum(row.rsi, prof.rsi.sell_threshold)
    /\ LtCol(row.ema_fast, row.ema_slow)

\* C13: for every bar, if adx < adx.min_strength or
\* atr < atr.min_volatility_factor then generate_signals yields HOLD (0)
\* for that bar, whatever macd_hist, rsi, ema_fast and ema_slow are.
C13_FilterForcesHold ==
    pc = "signals" =>
        \A t \in 1..Len(gsignals) :
            FilterFails(frame[t], profile) => gsignals[t] = 0

\* signals were generated for a bar that the filter rejects on atr alone
\* while its other indicators satisfy the BUY rule
C13_Witness ==
    /\ pc = "signals"
    /\ \E t \in 1..Len(gsignals) :
          /\ GeNum(frame[t].adx, profile.adx.min_strength)
          /\ LtNum(frame[t].atr, profile.atr.min_volatility_factor)
          /\ BuyRule(frame[t], profile)
          /\ gsignals[t] = 0

\* C14: for every bar that passes the ADX/ATR filter, the signal is BUY
\* iff macd_hist > 0 and rsi <= rsi.buy_threshold and ema_fast > ema_slow,
\* SELL iff macd_hist < 0 and rsi >= rsi.sell_threshold and
\* ema_fast < ema_slow, and HOLD otherwise; the BUY and SELL conditions are
\* never both true on one bar.
C14_BuySellRules ==
    pc = "signals" =>
        \A t \in 1..Len(gsignals) :
            FilterPasses(frame[t], profile) =>
                /\ gsignals[t] \in {-1, 0, 1}
                /\ gsignals[t] = 1 <=> BuyRule(frame[t], profile)
                /\ gsignals[t] = -1 <=> SellRule(frame[t], profile)
                /\ ~(BuyRule(frame[t], profile) /\ SellRule(frame[t], profile))

\* a SELL was generated for a bar that passes the filter and whose rsi
\* satisfies the rsi condition of BUY and that of SELL
C14_Witness ==
    /\ pc = "signals"
    /\ \E t \in 1..Len(gsignals) :
          /\ FilterPasses(frame[t], profile)
          /\ LeNum(frame[t].rsi, profile.rsi.buy_threshold)
          /\ GeNum(frame[t].rsi, profile.rsi.sell_threshold)
          /\ gsignals[t] = -1

\* the number of leading bars on which the rolling window of a column is
\* incomplete: rsi rolls rsi.period differences, the first of which is at
\* bar 1; atr rolls atr.period true ranges from bar 0; adx rolls
\* adx.period directional movements from bar 1 and divides by atr; the
\* Bollinger columns roll bollinger.period closes from bar 0
WarmUp(prof) ==
    [rsi      |-> prof.rsi.period,
     atr      |-> prof.atr.period - 1,
     adx      |-> Max(prof.adx.period, prof.atr.period - 1),
     bb_upper |-> prof.bollinger.period - 1,
     bb_mid   |-> prof.bollinger.period - 1,
     bb_lower |-> prof.bollinger.period - 1]

\* the columns of the frame that have a warm-up window
RollingColumns == {"rsi", "atr", "adx", "bb_upper", "bb_mid", "bb_lower"}

\* the columns with a warm-up window that generate_signals reads
SignalColumns == {"rsi", "atr", "adx"}

ZeroLossWindow(b, period, t) ==
    /\ RollingDefined(2, period, t)
    /\ \A k \in 1..period : Loss(b, Window(period, t)[k]) = 0

\* C16: on every bar whose RSI window is complete and whose average loss
\* over the window is zero, rsi is 100 rather than undefined, so that a
\* SELL whose other conditions hold is generated on that bar.
C16_RsiHundredOnZeroLoss ==
    pc = "signals" =>
        \A t \in 1..Len(frame) :
            ZeroLossWindow(bars, profile.rsi.period, t) =>
                /\ frame[t].rsi = Whole(100)
                /\ ( /\ LtNum(frame[t].macd_hist, 0)
                     /\ LtCol(frame[t].ema_fast, frame[t].ema_slow)
                     /\ profile.rsi.sell_threshold <= 100
                     /\ FilterPasses(frame[t], profile) )
                   => gsignals[t] = -1

\* the number of trades of the list whose pnl satisfies the test
CountPnl(trs, Test(_)) == Cardinality({k \in 1..Len(trs) : Test(trs[k].pnl)})

\* C17: for a non-empty trade list, total_trades is the number of trades,
\* winning_trades the number with pnl > 0 and losing_trades the number
\* with pnl < 0; trades with pnl == 0 are counted in total_trades only, so
\* winning_trades + losing_trades <= total_trades, with equality iff no
\* trade has pnl == 0.
C17_TradeCounts ==
    (pc = "metrics" /\ trades # <<>>) =>
        /\ metrics.total_trades = Len(trades)
        /\ metrics.winning_trades = CountPnl(trades, LAMBDA x : x > 0)
        /\ metrics.losing_trades = CountPnl(trades, LAMBDA x : x < 0)
        /\ metrics.winning_trades + metrics.losing_trades
              <= metrics.total_trades
        /\ (metrics.winning_trades + metrics.losing_trades
              = metrics.total_trades)
           <=> CountPnl(trades, LAMBDA x : x = 0) = 0

\* metrics of a run with a trade of pnl 0 and a trade of non-zero pnl
C17_Witness ==
    /\ pc = "metrics"
    /\ CountPnl(trades, LAMBDA x : x = 0) >= 1
    /\ CountPnl(trades, LAMBDA x : x # 0) >= 1

\* C18: the sum of the pnl of the winning trades plus the sum of the pnl
\* of the losing trades equals total_pnl, before rounding.
C18_WinLossSumIsTotal ==
    pc = "metrics" =>
        /\ PnlSum(Winning(trades)) + PnlSum(Losing(trades)) = TotalPnl(trades)
        /\ trades # <<>> =>
              metrics.total_pnl
                 = Round2Money(PnlSum(Winning(trades)) + PnlSum(Losing(trades)))

\* metrics of a run with a winning and a losing trade
C18_Witness ==
    /\ pc = "metrics"
    /\ Winning(trades) # <<>>
    /\ Losing(trades) # <<>>

\* the maximum of equity[0..t], t counted from 1
RunningMax(eq, t) == SeqMax(SubSeq(eq, 1, t))

\* min over t of (equity[t] - max(equity[0..t])) / max(equity[0..t]) * 100,
\* rounded to 2 decimals
RunningPeakDrawdown(eq) ==
    SeqMin([t \in 1..Len(eq) |->
               Round2Pct(eq[t] - RunningMax(eq, t), RunningMax(eq, t))])

NonDecreasing(eq) == \A t \in 1..(Len(eq) - 1) : eq[t] <= eq[t + 1]

\* C19: with at least one trade, max_drawdown is the minimum over t of
\* (equity[t] - max(equity[0..t])) / max(equity[0..t]) * 100: each point is
\* compared with the running peak up to it, not with a peak reached later.
C19_DrawdownFromRunningPeak ==
    (pc = "metrics" /\ trades # <<>>) =>
        metrics.max_drawdown = RunningPeakDrawdown(equity_curve)

\* C20: max_drawdown is <= 0, and it is 0 iff the equity curve is
\* non-decreasing over all bars.
C20_DrawdownSign ==
    (pc = "metrics" /\ trades # <<>>) =>
        /\ metrics.max_drawdown <= 0
        /\ metrics.max_drawdown = 0 <=> NonDecreasing(equity_curve)

\* C21: sharpe_ratio is 0 when the equity curve has fewer than 2 points,
\* and for every equity curve with 2 or more points it is the value of the
\* formula mean(returns) / std(returns) * sqrt(252) over the per-bar
\* returns, not a forced 0.
C21_SharpeFromTwoPoints ==
    pc = "metrics" =>
        /\ Len(equity_curve) < 2 => metrics.sharpe_sign = {0}
        /\ Len(equity_curve) >= 2 =>
              metrics.sharpe_sign = SharpeFormulaSign(equity_curve)

\* no bar read so far carries a BUY or a SELL signal
NoSignal == \A k \in 1..Len(signals) : signals[k] = 0

\* C22: if no bar carries a BUY or SELL signal, simulate_trades records
\* zero trades and the equity value of every bar equals initial_balance,
\* and compute_metrics returns total_trades 0, win_rate 0, total_pnl 0,
\* max_drawdown 0, sharpe_ratio 0, return_pct 0 and final_balance equal to
\* initial_balance.
C22_NoSignalNoTrade ==
    NoSignal =>
        /\ trades = <<>>
        /\ open_position = None
        /\ Len(equity_curve) = idx
        /\ \A t \in 1..Len(equity_curve) : equity_curve[t] = initial_balance
        /\ pc = "metrics" =>
              /\ metrics.total_trades = 0
              /\ metrics.winning_trades = 0
              /\ metrics.losing_trades = 0
              /\ metrics.win_rate = 0
              /\ metrics.total_pnl = 0
              /\ metrics.max_drawdown = 0
              /\ metrics.sharpe_sign = {0}
              /\ metrics.return_pct = 0
              /\ metrics.final_balance = initial_balance

\* metrics of a run of two bars or more without a signal, over closes that
\* move and with a defined atr
C22_Witness ==
    /\ pc = "metrics"
    /\ NoSignal
    /\ Len(df) >= 2
    /\ \E j, k \in 1..Len(df) : df[j].close # df[k].close /\ df[j].atr # NaN

\* no position is open when the entry check of bar i runs: none opened on
\* an earlier bar is still open after bar i's exit check
FlatAt(i) ==
    /\ \A k \in 1..Len(trades) :
          ~(trades[k].entry_idx < i /\ trades[k].exit_idx > i)
    /\ open_position # None => Pos(open_position).entry_idx >= i

\* the trades of the position opened on bar i
TradesFrom(i) == {k \in 1..Len(trades) : trades[k].entry_idx = i}

\* flat at bar i, which carries a BUY; bar j is the first later bar whose
\* close reaches the take_profit, and no bar in between had
\* close <= stop_loss
LongReachesTP(i, j) ==
    /\ FlatAt(i)
    /\ BarSignal(i) = 1
    /\ BarRow(j).close >= EntryBarTP("BUY", i)
    /\ \A k \in (i + 1)..(j - 1) :
          /\ BarRow(k).close > EntryBarSL("BUY", i)
          /\ BarRow(k).close < EntryBarTP("BUY", i)

\* a LONG was opened at bar i's close and exactly one trade is recorded for
\* it, with reason TP, exit index j and pnl (take_profit - entry_price) * lot
OneTPTrade(i, j) ==
    /\ Cardinality(TradesFrom(i)) = 1
    /\ \A k \in TradesFrom(i) :
          /\ trades[k].type = "BUY"
          /\ trades[k].entry_price = BarRow(i).close
          /\ trades[k].reason = "TP"
          /\ trades[k].exit_idx = j
          /\ trades[k].pnl
                = (EntryBarTP("BUY", i) - trades[k].entry_price) * trades[k].lot

\* C23 as stated: starting flat, a BUY on bar i opens a LONG at bar i's
\* close, and if the close of a later bar j reaches take_profit while no
\* bar in between had close <= stop_loss, exactly one trade is recorded,
\* with reason TP, exit index j and pnl (take_profit - entry_price) * lot.
C23_Original ==
    \A i \in 0..(idx - 1) : \A j \in (i + 1)..(idx - 1) :
        LongReachesTP(i, j) => OneTPTrade(i, j)

\* C23 amended: starting flat, a BUY on bar i opens a LONG at bar i's
\* close, and if the close of a later bar j reaches take_profit and is
\* above stop_loss, while no bar in between had close <= stop_loss,
\* exactly one trade is recorded, with reason TP, exit index j and pnl
\* (take_profit - entry_price) * lot. When the entry bar's atr is 0,
\* stop_loss = take_profit = entry_price and a close equal to them is
\* recorded with reason SL.
C23_LongTakeProfit ==
    /\ \A i \in 0..(idx - 1) :
          (FlatAt(i) /\ BarSignal(i) = 1) =>
              \/ /\ open_position # None
                 /\ Pos(open_position).entry_idx = i
                 /\ Pos(open_position).type = "BUY"
                 /\ Pos(open_position).entry_price = BarRow(i).close
              \/ \E k \in TradesFrom(i) :
                    /\ trades[k].type = "BUY"
                    /\ trades[k].entry_price = BarRow(i).close
    /\ \A i \in 0..(idx - 1) : \A j \in (i + 1)..(idx - 1) :
          (LongReachesTP(i, j) /\ BarRow(j).close > EntryBarSL("BUY", i))
              => OneTPTrade(i, j)
    /\ \A i \in 0..(idx - 1) : \A j \in (i + 1)..(idx - 1) :
          ( /\ LongReachesTP(i, j)
            /\ BarRow(j).close <= EntryBarSL("BUY", i) )
              => \A k \in TradesFrom(i) :
                    trades[k].reason = "SL" /\ trades[k].exit_idx = j

\* a LONG closed two bars or more after its entry by a close equal to its
\* take_profit
C23_Witness ==
    \E k \in 1..Len(trades) :
        /\ trades[k].type = "BUY"
        /\ trades[k].reason = "TP"
        /\ trades[k].exit_idx >= trades[k].entry_idx + 2
        /\ trades[k].exit_price = BarRow(trades[k].exit_idx).close
        /\ trades[k].pnl > 0

C25_EmptySeriesAborts ==
    ~( /\ pc = "returned"
       /\ result # None
       /\ df = <<>>
       /\ Pos(result).metrics.total_trades = 0
       /\ Pos(result).metrics.final_balance = initial_balance )

\* a required strategy option is missing from the configuration
OptionMissing ==
    \/ config # ConfigOptions
    \/ ~HasAll(profile, IndicatorOptions \cup SignalOptions)

\* C26: if a required strategy option (an indicator period or threshold,
\* atr_sl_multiplier, atr_tp_multiplier, risk_percentage) is missing from
\* the configuration, the run fails before simulate_trades processes any
\* bar: no missing option is replaced by a built-in default.
C26_MissingOptionFailsFast ==
    OptionMissing =>
        /\ idx = 0
        /\ pc \notin {"done", "metrics"}
        /\ pc = "returned" => result = None

\* trades[:50] of the trade list
FirstTrades(trs) ==
    SubSeq(trs, 1, IF Len(trs) < TRADES_IN_RESULT THEN Len(trs)
                   ELSE TRADES_IN_RESULT)

\* what C27 says of a run that returned, but for the trade list of the record
ResultRecordOrNothing ==
    /\ DOMAIN profile # {} =>
          /\ result # None
          /\ Pos(result).metrics = metrics
          /\ Pos(result).metrics.total_trades \in Nat
          /\ Pos(result).metrics.final_balance \in Int
          /\ Pos(result).total_trades_count = Pos(result).metrics.total_trades
          /\ Pos(result).total_trades_count = Len(trades)
    /\ DOMAIN profile = {} =>
          /\ result = None
          /\ idx = 0
          /\ df = <<>>
          /\ trades = <<>>
          /\ equity_curve = <<>>
          /\ metrics = {}

\* C27 as stated: for an existing profile run_backtest returns a record
\* with metrics (total_trades, a numeric final_balance), the trade list and
\* total_trades_count == metrics.total_trades, and the trade list of the
\* record contains every closed trade of the run; for an unknown profile
\* it returns no record and simulates nothing.
C27_Original ==
    pc = "returned" =>
        /\ ResultRecordOrNothing
        /\ result # None => Pos(result).trades = trades

\* C27 amended: as stated, except that the trade list of the record holds
\* the first 50 closed trades of the run, which is every closed trade only
\* when the run closed at most 50; total_trades_count and
\* metrics.total_trades count all of them.
C27_ResultRecord ==
    pc = "returned" =>
        /\ ResultRecordOrNothing
        /\ result # None =>
              /\ Pos(result).trades = FirstTrades(trades)
              /\ Len(trades) <= TRADES_IN_RESULT => Pos(result).trades = trades
              /\ Len(Pos(result).trades) <= TRADES_IN_RESULT

\* run_backtest returned the record of a run that closed more than 50 trades
C27_Witness ==
    /\ pc = "returned"
    /\ result # None
    /\ Len(trades) > TRADES_IN_RESULT
    /\ Pos(result).total_trades_count = Len(trades)

----------------------------------------------------------------------------
(* TheBot.py: analyze_symbol, lines 259-306.  A float is {v}, NaN is {};  *)
(* a comparison with NaN is False.                                        *)

FLt(x, y) == x # NaN /\ y # NaN /\ Num(x) < Num(y)
FLe(x, y) == x # NaN /\ y # NaN /\ Num(x) <= Num(y)
FGt(x, y) == x # NaN /\ y # NaN /\ Num(x) > Num(y)
FGe(x, y) == x # NaN /\ y # NaN /\ Num(x) >= Num(y)

\* PROFILE_CLASSIC = PROFILES.get("classic", {})
PROFILE_CLASSIC == CompleteProfile

\* the dicts calculate_indicators_ta returns for the latest M15 row
BotIndicators ==
    [adx       : {{10}, {30}},
     atr       : {{0}, {1}},
     macd_hist : {{-1}, {1}},
     rsi       : {NaN, {20}, {80}},
     ema_fast  : {{1}, {3}},
     ema_slow  : {{2}}]

\* the dicts it returns for the latest H1 row: only the EMAs are read
H1Indicators ==
    [adx       : {{30}},
     atr       : {{1}},
     macd_hist : {{0}},
     rsi       : {{50}},
     ema_fast  : {NaN, {1}, {2}, {3}},
     ema_slow  : {{2}}]

\* the indicators of a fetch that gave no bars
NoIndicators == CHOOSE ind \in H1Indicators : ind.ema_fast = NaN

\* fetch_mt5_rates followed by calculate_indicators_ta: with a terminal the
\* fetch raises (lines 176, 183) or gives bars; without one it gives
\* synthetic bars (lines 190-207); the indicator code can raise on the bars
Fetches(ready, inds) ==
    {[status |-> "data", ind |-> ind] : ind \in inds}
    \cup {[status |-> "ind_raises", ind |-> NoIndicators]}
    \cup (IF ready
          THEN {[status |-> "raises", ind |-> NoIndicators]}
          ELSE {})

\* a dataframe that is None or empty, which analyze_symbol also guards
EmptyFetch == [status |-> "empty", ind |-> NoIndicators]

\* buy = macd_hist > 0 and rsi <= buy_threshold and ema_fast > ema_slow
\* sell = macd_hist < 0 and rsi >= sell_threshold and ema_fast < ema_slow
BaseSignal(ind, prof) ==
    IF /\ FGt(ind.macd_hist, {0})
       /\ FLe(ind.rsi, {prof.rsi.buy_threshold})
       /\ FGt(ind.ema_fast, ind.ema_slow)
    THEN "BUY"
    ELSE IF /\ FLt(ind.macd_hist, {0})
            /\ FGe(ind.rsi, {prof.rsi.sell_threshold})
            /\ FLt(ind.ema_fast, ind.ema_slow)
         THEN "SELL"
         ELSE "HOLD"

H1Vetoes_strict(signal, h1) ==
    /\ h1.status = "data"
    /\ \/ signal = "BUY" /\ FLt(h1.ind.ema_fast, h1.ind.ema_slow)
       \/ signal = "SELL" /\ FGt(h1.ind.ema_fast, h1.ind.ema_slow)

\* lines 291-301: the H1 frame has bars, its indicators were computed, and
\* BUY meets ema_fast <= ema_slow or SELL meets ema_fast >= ema_slow
H1Vetoes(signal, h1) ==
    /\ h1.status = "data"
    /\ \/ signal = "BUY" /\ FLe(h1.ind.ema_fast, h1.ind.ema_slow)
       \/ signal = "SELL" /\ FGe(h1.ind.ema_fast, h1.ind.ema_slow)

\* analyze_symbol(symbol, profile, mt5_ready): the returned signal and
\* reason, the fetch_mt5_rates calls made, and whether it raised instead
analyze_symbol(m15, h1, prof) ==
    IF m15.status = "raises"
    THEN [sig |-> "HOLD", reason |-> "fetch_error", fetched |-> 1]
    ELSE IF m15.status = "empty"
    THEN [sig |-> "HOLD", reason |-> "no_data", fetched |-> 1]
    ELSE IF m15.status = "ind_raises"
    THEN [sig |-> "NONE", reason |-> "exception", fetched |-> 1]
    ELSE IF FLt(m15.ind.adx, {prof.adx.min_strength})
    THEN [sig |-> "HOLD", reason |-> "adx_low", fetched |-> 1]
    ELSE IF FLt(m15.ind.atr, {prof.atr.min_volatility_factor})
    THEN [sig |-> "HOLD", reason |-> "atr_low", fetched |-> 1]
    ELSE IF H1Vetoes(BaseSignal(m15.ind, prof), h1)
    THEN [sig |-> "HOLD", reason |-> "h1_mismatch", fetched |-> 2]
    ELSE [sig |-> BaseSignal(m15.ind, prof), reason |-> "m15_signal",
          fetched |-> 2]

\* the backtest engine is not running
EngineIdle ==
    /\ initial_balance = 400000000
    /\ df = <<>>
    /\ signals = <<>>
    /\ idx = 0
    /\ current_balance = initial_balance
    /\ open_position = None
    /\ trades = <<>>
    /\ equity_curve = <<>>
    /\ metrics = {}
    /\ bars = <<>>
    /\ profile = {}
    /\ frame = <<>>
    /\ gsignals = <<>>
    /\ previous = None
    /\ config = ConfigOptions
    /\ result = None

engine_state == <<initial_balance, df, signals, idx, current_balance,
                  open_position, trades, equity_curve, metrics,
                  bars, profile, frame, gsignals, previous, config, result>>

\* what TheBot.py leaves alone
outside_bot == <<engine_state, service_state>>

\* what one analyze_symbol call leaves alone
loop_state == <<live_trading, paper_trade, DRY_RUN, ONCE, mt5, mt5_ready,
                cycle, sym_idx, analyzed, fetches, failed_before,
                proposed_changes, archive, order_send>>

\* analyze_symbol is entered with a terminal attached; rates holds what
\* its M15 and H1 fetches will give
InitAnalyze ==
    /\ pc = "analyze"
    /\ EngineIdle
    /\ ServiceIdle
    /\ live_trading = FALSE
    /\ paper_trade = FALSE
    /\ DRY_RUN = FALSE
    /\ ONCE = FALSE
    /\ mt5 = {"MetaTrader5"}
    /\ mt5_ready = TRUE
    /\ cycle = 0
    /\ sym_idx = 0
    /\ analyzed = <<>>
    /\ fetches = <<>>
    /\ failed_before = {}
    /\ proposed_changes = <<>>
    /\ archive = FALSE
    /\ order_send = {}
    /\ rates \in [m15 : Fetches(mt5_ready, BotIndicators) \cup {EmptyFetch},
                  h1  : Fetches(mt5_ready, H1Indicators) \cup {EmptyFetch}]
    /\ analysis = None

\* sig, reason, ind = analyze_symbol(s, profile, mt5_ready=mt5_ready)
AnalyzeOnce ==
    /\ pc = "analyze"
    /\ pc' = "analyzed"
    /\ analysis' = {analyze_symbol(rates.m15, rates.h1, PROFILE_CLASSIC)}
    /\ UNCHANGED rates
    /\ UNCHANGED loop_state
    /\ UNCHANGED outside_bot

NextAnalyze == AnalyzeOnce

SpecAnalyze == InitAnalyze /\ [][NextAnalyze]_vars

----------------------------------------------------------------------------
(* TheBot.py: run_starter_loop, lines 984-1131, with execute_trade, lines  *)
(* 569-696, and process_proposed_changes, lines 865-955.  The files are    *)
(* read and written without error; verify_trade_execution, lines 699-716,  *)
(* only reads the open positions: what follows its try statement is never  *)
(* run, because every branch of the statement returns.  Ctrl-C (lines      *)
(* 1127-1128) ends the run at any point and changes nothing else, so that  *)
(* a stopped run is a prefix of the runs followed here.                    *)

\* polling cycles followed
MaxCycles == 2

\* symbols = [symbol_map.get(s, s) for s in SYMBOLS_CLASSIC]
Symbols == <<"EURUSD", "XAUUSD">>
SymbolSet == {Symbols[i] : i \in DOMAIN Symbols}

\* an item of proposed_changes.json; a key that is absent is "null"
Item(ts, action, symbol, signal, position, new_sl) ==
    [ts |-> ts, action |-> action, symbol |-> symbol, signal |-> signal,
     position |-> position, new_sl |-> new_sl]

\* the proposed_changes.json files an operator or a UI drops in
OperatorFiles ==
    {<<Item("null", "order_send", Symbols[1], "BUY", "null", "null")>>,
     <<Item("null", "modify_sl", "null", "null", "7", "1.0950")>>,
     <<Item("null", "modify_sl", "null", "null", "7", "null")>>,
     <<Item("null", "close_position", "null", "null", "7", "null")>>,
     <<Item("null", "note", "null", "null", "null", "null"),
       Item("null", "order_send", Symbols[2], "SELL", "null", "null")>>}

\* a request given to mt5.order_send
Request(action, symbol, type, position) ==
    [action |-> action, symbol |-> symbol, type |-> type,
     position |-> position]

\* what the terminal answers to execute_trade: mt5.symbol_info gives None,
\* mt5.symbol_info_tick gives None, or both give a value
BrokerOutcomes == {"no_symbol", "no_tick", "quotes"}

\* nothing saved and nothing sent
NoEffect == [saved |-> <<>>, sent |-> {}]

execute_trade_nodryrun(symbol, signal, broker) ==
    IF ~live_trading
    THEN [saved |-> <<Item("now", "order_send", symbol, signal,
                           "null", "null")>>,
          sent |-> {}]
    ELSE IF mt5 = None \/ broker # "quotes" \/ signal \notin {"BUY", "SELL"}
    THEN NoEffect
    ELSE [saved |-> <<>>,
          sent |-> {Request("TRADE_ACTION_DEAL", symbol, signal, "null")}]

\* execute_trade(symbol, signal, ind): the items it saves with
\* save_proposed_change and the requests it gives to mt5.order_send
execute_trade(symbol, signal, broker) ==
    IF ~live_trading \/ DRY_RUN
    THEN [saved |-> <<Item("now", "order_send", symbol, signal,
                           "null", "null")>>,
          sent |-> {}]
    ELSE IF mt5 = None
    THEN IF paper_trade
         THEN [saved |-> <<Item("now", "simulated_execution", symbol,
                                signal, "null", "null")>>,
               sent |-> {}]
         ELSE NoEffect
    ELSE IF broker # "quotes" \/ signal \notin {"BUY", "SELL"}
    THEN NoEffect
    ELSE [saved |-> <<>>,
          sent |-> {Request("TRADE_ACTION_DEAL", symbol, signal, "null")}]

\* one turn of the loop of process_proposed_changes, lines 887-931
ProcessItem(item, broker) ==
    IF item.action = "order_send"
    THEN IF live_trading /\ ~DRY_RUN
         THEN execute_trade(item.symbol, item.signal, broker)
         ELSE [saved |-> <<Item("now", "simulated_execution", item.symbol,
                                item.signal, "null", "null")>>,
               sent |-> {}]
    ELSE IF item.action = "modify_sl"
    THEN IF /\ item.position # "null"
            /\ item.new_sl # "null"
            /\ mt5 # None
            /\ live_trading
            /\ ~DRY_RUN
         THEN [saved |-> <<>>,
               sent |-> {Request("TRADE_ACTION_SLTP", "null", "null",
                                 item.position)}]
         ELSE NoEffect
    ELSE IF item.action = "close_position"
    THEN IF /\ item.position # "null"
            /\ mt5 # None
            /\ live_trading
            /\ ~DRY_RUN
         THEN [saved |-> <<>>,
               sent |-> {Request("TRADE_ACTION_CLOSE_BY", "null", "null",
                                 item.position)}]
         ELSE NoEffect
    ELSE NoEffect

\* ensure_mt5_init(): ok is what mt5.initialize() gives
ensure_mt5_init(ok) == mt5 # None /\ ok

\* ensure_mt5_connection(): alive is whether mt5.account_info() answers
ensure_mt5_connection(alive, ok) ==
    mt5 # None /\ (alive \/ ensure_mt5_init(ok))

\* TheBot.py is started with its flags and its config.yaml
InitBot ==
    /\ pc = "bot_start"
    /\ EngineIdle
    /\ ServiceIdle
    /\ live_trading \in BOOLEAN
    /\ paper_trade \in BOOLEAN
    /\ DRY_RUN \in BOOLEAN
    /\ ONCE \in BOOLEAN
    /\ mt5 \in {None, {"MetaTrader5"}}
    /\ mt5_ready = FALSE
    /\ cycle = 0
    /\ sym_idx = 0
    /\ analyzed = [sym \in SymbolSet |-> None]
    /\ fetches = [sym \in SymbolSet |-> 0]
    /\ failed_before = {}
    /\ proposed_changes = <<>>
    /\ archive = FALSE
    /\ order_send = {}
    /\ rates = <<>>
    /\ analysis = None

\* lines 985-1086: mt5_ready = ensure_mt5_init(); return when live trading
\* needs a terminal that is not there
StartBot ==
    /\ pc = "bot_start"
    /\ \E ok \in BOOLEAN :
          /\ mt5_ready' = ensure_mt5_init(ok)
          /\ pc' = IF ~ensure_mt5_init(ok) /\ live_trading /\ ~paper_trade
                   THEN "exited"
                   ELSE "cycle_start"
    /\ UNCHANGED <<live_trading, paper_trade, DRY_RUN, ONCE, mt5, cycle,
                   sym_idx, analyzed, fetches, failed_before,
                   proposed_changes, archive, order_send, rates, analysis>>
    /\ UNCHANGED outside_bot

\* the symbols whose M15 fetch failed in the cycle that ends
FetchFailed == {sym \in SymbolSet : analyzed[sym] # None
                                    /\ Pos(analyzed[sym]).reason = "fetch_error"}

\* lines 1088-1094: a cycle begins with the connection check
CycleStart ==
    /\ pc = "cycle_start"
    /\ cycle < MaxCycles
    /\ \E alive \in BOOLEAN, ok \in BOOLEAN :
          LET ready == mt5_ready /\ ensure_mt5_connection(alive, ok)
          IN  /\ mt5_ready' = ready
              /\ pc' = IF mt5_ready /\ ~ready /\ live_trading /\ ~paper_trade
                       THEN "exited"
                       ELSE "symbols"
    /\ cycle' = cycle + 1
    /\ sym_idx' = 0
    /\ failed_before' = FetchFailed
    /\ analyzed' = [sym \in SymbolSet |-> None]
    /\ fetches' = [sym \in SymbolSet |-> 0]
    /\ order_send' = {}
    /\ UNCHANGED <<live_trading, paper_trade, DRY_RUN, ONCE, mt5,
                   proposed_changes, archive, rates, analysis>>
    /\ UNCHANGED outside_bot

AfterSymbol_stoponerror(a) ==
    IF a.reason = "fetch_error" THEN Len(Symbols) ELSE sym_idx + 1

\* the for loop goes on to the next symbol whatever analyze_symbol gave
AfterSymbol(a) == sym_idx + 1

\* what analyze_symbol can give in a cycle, over all the rates its two
\* fetches can give
Analyses(ready) ==
    {analyze_symbol(m15, h1, PROFILE_CLASSIC) :
        m15 \in Fetches(ready, BotIndicators),
        h1 \in Fetches(ready, H1Indicators)}

\* lines 1096-1114: one turn of `for s in symbols`
AnalyzeSymbol ==
    /\ pc = "symbols"
    /\ sym_idx < Len(Symbols)
    /\ \E a \in Analyses(mt5_ready), broker \in BrokerOutcomes :
          LET sym == Symbols[sym_idx + 1]
              ex == IF a.sig \in {"BUY", "SELL"} /\ live_trading
                    THEN execute_trade(sym, a.sig, broker)
                    ELSE NoEffect
          IN  /\ analyzed' = [analyzed EXCEPT
                    ![sym] = {[sig |-> a.sig, reason |-> a.reason]}]
              /\ fetches' = [fetches EXCEPT ![sym] = @ + a.fetched]
              /\ proposed_changes' = proposed_changes \o ex.saved
              /\ order_send' = order_send \cup ex.sent
              /\ sym_idx' = AfterSymbol(a)
    /\ UNCHANGED <<pc, live_trading, paper_trade, DRY_RUN, ONCE, mt5,
                   mt5_ready, cycle, failed_before, archive, rates,
                   analysis>>
    /\ UNCHANGED outside_bot

\* lines 1115-1120: process_proposed_changes() after the last symbol; the
\* file is archived and removed
ProcessProposedChanges ==
    /\ pc = "symbols"
    /\ sym_idx = Len(Symbols)
    /\ pc' = "cycle_end"
    /\ \E brokers \in [DOMAIN proposed_changes -> BrokerOutcomes] :
          order_send' = order_send \cup
              UNION {ProcessItem(proposed_changes[i], brokers[i]).sent :
                        i \in DOMAIN proposed_changes}
    /\ archive' = (archive \/ proposed_changes # <<>>)
    /\ proposed_changes' = <<>>
    /\ UNCHANGED <<live_trading, paper_trade, DRY_RUN, ONCE, mt5, mt5_ready,
                   cycle, sym_idx, analyzed, fetches, failed_before, rates,
                   analysis>>
    /\ UNCHANGED outside_bot

\* lines 1121-1126: leave after one cycle with --once, else sleep
CycleEnd ==
    /\ pc = "cycle_end"
    /\ pc' = IF ONCE THEN "exited" ELSE "cycle_start"
    /\ UNCHANGED <<bot_state, service_state>>
    /\ UNCHANGED outside_bot

\* an operator or a UI drops in a proposed_changes.json where there is
\* none; the file is followed from the end of the for loop, where
\* process_proposed_changes reads it next
OperatorProposes ==
    /\ pc = "symbols"
    /\ sym_idx = Len(Symbols)
    /\ proposed_changes = <<>>
    /\ proposed_changes' \in OperatorFiles
    /\ UNCHANGED <<pc, live_trading, paper_trade, DRY_RUN, ONCE, mt5,
                   mt5_ready, cycle, sym_idx, analyzed, fetches,
                   failed_before, archive, order_send, rates, analysis>>
    /\ UNCHANGED outside_bot

NextBot ==
    \/ StartBot
    \/ CycleStart
    \/ AnalyzeSymbol
    \/ ProcessProposedChanges
    \/ CycleEnd
    \/ OperatorProposes

SpecBot == InitBot /\ [][NextBot]_vars

----------------------------------------------------------------------------
(* Properties of TheBot.py *)

\* positions of Symbols the for loop has gone through
Handled == {Symbols[i] : i \in 1..sym_idx}

\* C28: in a polling cycle of run_starter_loop a failed M15 fetch gives
\* HOLD with reason fetch_error for its symbol after a single
\* fetch_mt5_rates call; the for loop has analyzed exactly the symbols it
\* has gone through, so that every symbol is analyzed when the cycle
\* completes, whatever failed before it; and a symbol whose fetch failed in
\* the cycle before is analyzed, with a new fetch, in the cycle that
\* follows.
C28_FetchFailureIsLocal ==
    /\ \A sym \in SymbolSet :
          (analyzed[sym] # None /\ Pos(analyzed[sym]).reason = "fetch_error")
             => /\ Pos(analyzed[sym]).sig = "HOLD"
                /\ fetches[sym] = 1
    /\ pc \in {"symbols", "cycle_end"} =>
          \A sym \in SymbolSet :
             /\ sym \in Handled <=> analyzed[sym] # None
             /\ sym \in Handled <=> fetches[sym] >= 1
    /\ pc = "cycle_end" =>
          \A sym \in SymbolSet : analyzed[sym] # None /\ fetches[sym] \in 1..2
    /\ (pc = "cycle_end" /\ cycle > 1) =>
          \A sym \in failed_before :
             analyzed[sym] # None /\ fetches[sym] >= 1

\* the second cycle is complete: the first symbol, whose fetch failed in
\* the first cycle, gave BUY; the fetch of the second symbol failed
C28_Witness ==
    /\ pc = "cycle_end"
    /\ cycle = 2
    /\ failed_before = {Symbols[1]}
    /\ Pos(analyzed[Symbols[1]]) = [sig |-> "BUY", reason |-> "m15_signal"]
    /\ Pos(analyzed[Symbols[2]]).reason = "fetch_error"
    /\ fetches[Symbols[2]] = 1

\* analyze_symbol got M15 bars and indicators that pass the ADX and ATR
\* filters, so that it reached its BUY/SELL rule
ReachesRule ==
    /\ rates.m15.status = "data"
    /\ ~FLt(rates.m15.ind.adx, {PROFILE_CLASSIC.adx.min_strength})
    /\ ~FLt(rates.m15.ind.atr, {PROFILE_CLASSIC.atr.min_volatility_factor})

\* the signal of the M15 rule
Base == BaseSignal(rates.m15.ind, PROFILE_CLASSIC)

\* H1 bars and indicators are there
H1Available == rates.h1.status = "data"

\* the H1 EMAs stand against the direction: fast below slow for BUY, fast
\* above slow for SELL
H1Against ==
    \/ Base = "BUY"  /\ FLt(rates.h1.ind.ema_fast, rates.h1.ind.ema_slow)
    \/ Base = "SELL" /\ FGt(rates.h1.ind.ema_fast, rates.h1.ind.ema_slow)

\* the H1 EMAs do not stand with the direction: fast not above slow for
\* BUY, fast not below slow for SELL, both being numbers
H1NotWith ==
    \/ Base = "BUY"  /\ FLe(rates.h1.ind.ema_fast, rates.h1.ind.ema_slow)
    \/ Base = "SELL" /\ FGe(rates.h1.ind.ema_fast, rates.h1.ind.ema_slow)

\* C29 as stated: a base BUY (SELL) becomes HOLD iff H1 data is available
\* and its ema_fast is below (above) its ema_slow, and is returned
\* unchanged when the H1 fetch fails or gives no data.
C29_Original ==
    (pc = "analyzed" /\ ReachesRule /\ Base \in {"BUY", "SELL"}) =>
        /\ Pos(analysis).sig = "HOLD" <=> (H1Available /\ H1Against)
        /\ rates.h1.status \in {"raises", "empty"} =>
              Pos(analysis).sig = Base

\* C29: a base BUY (SELL) of analyze_symbol becomes HOLD, with reason
\* h1_mismatch, iff H1 data is available and its ema_fast is below or equal
\* to (above or equal to) its ema_slow; otherwise, and so when the H1 fetch
\* fails, gives no data, or the H1 indicators cannot be computed, the base
\* signal is returned unchanged with reason m15_signal.
C29_H1Veto ==
    (pc = "analyzed" /\ ReachesRule /\ Base \in {"BUY", "SELL"}) =>
        /\ Pos(analysis).sig = "HOLD" <=> (H1Available /\ H1NotWith)
        /\ Pos(analysis).sig = "HOLD" => Pos(analysis).reason = "h1_mismatch"
        /\ Pos(analysis).sig # "HOLD" =>
              /\ Pos(analysis).sig = Base
              /\ Pos(analysis).reason = "m15_signal"
        /\ rates.h1.status \in {"raises", "empty", "ind_raises"} =>
              Pos(analysis).sig = Base

\* a base BUY met H1 EMAs that are equal and came back as HOLD
C29_Witness ==
    /\ pc = "analyzed"
    /\ ReachesRule
    /\ Base = "BUY"
    /\ H1Available
    /\ rates.h1.ind.ema_fast = rates.h1.ind.ema_slow
    /\ Pos(analysis) = [sig |-> "HOLD", reason |-> "h1_mismatch",
                        fetched |-> 2]

\* the items save_proposed_change wrote for sym in this run
Recorded(sym) ==
    {i \in DOMAIN proposed_changes :
        /\ proposed_changes[i].ts = "now"
        /\ proposed_changes[i].symbol = sym
        /\ proposed_changes[i].action = "order_send"}

\* C30: with live_trading false or with --dry-run, mt5.order_send is given
\* no request by run_starter_loop, execute_trade or
\* process_proposed_changes: no order, no SL modification, no close; under
\* --dry-run with live_trading a BUY or SELL of the cycle is recorded in
\* proposed_changes.json as a proposed order_send instead.
C30_NoOrderUnlessLive ==
    (~live_trading \/ DRY_RUN) =>
        /\ order_send = {}
        /\ (live_trading /\ pc = "symbols") =>
              \A sym \in Handled :
                 Pos(analyzed[sym]).sig \in {"BUY", "SELL"} =>
                    Recorded(sym) # {}
        /\ ~live_trading =>
              \A i \in DOMAIN proposed_changes :
                 proposed_changes[i].ts = "null"

\* a dry run with live_trading and a terminal: the cycle gave a BUY, its
\* proposed order and the file went to the archive, nothing was sent
C30_Witness ==
    /\ live_trading
    /\ DRY_RUN
    /\ mt5_ready
    /\ pc = "cycle_end"
    /\ Pos(analyzed[Symbols[1]]).sig = "BUY"
    /\ archive
    /\ proposed_changes = <<>>
    /\ order_send = {}

----------------------------------------------------------------------------
(* Properties of the trade list and of the equity curve *)

\* C38: in the trade list of simulate_trades every trade has
\* entry_idx < exit_idx, and the exit_idx of a trade is at most the
\* entry_idx of the trade after it: the trades are in chronological order
\* and do not overlap.
C38_TradesOrdered ==
    /\ \A k \in 1..Len(trades) : trades[k].entry_idx < trades[k].exit_idx
    /\ \A k \in 1..(Len(trades) - 1) :
          trades[k].exit_idx <= trades[k + 1].entry_idx

\* two trades, the second entered on the bar that closed the first
C38_Witness ==
    /\ pc = "done"
    /\ Len(trades) = 2
    /\ trades[1].exit_idx = trades[2].entry_idx

\* the pnl of the trades closed on bar t or before
RECURSIVE PnlUpTo(_, _)
PnlUpTo(trs, t) ==
    IF trs = <<>> THEN 0
    ELSE (IF Head(trs).exit_idx <= t THEN Head(trs).pnl ELSE 0)
            + PnlUpTo(Tail(trs), t)

\* C39: the equity value recorded for bar t is initial_balance plus the pnl
\* of the trades with exit_idx <= t, so that the last equity value is
\* initial_balance plus the pnl of all recorded trades; and final_balance
\* less initial_balance differs from total_pnl of compute_metrics by the
\* rounding of the two fields to cents at most.
C39_EquityIsBalancePlusPnl ==
    /\ Len(equity_curve) = idx
    /\ \A t \in 0..(idx - 1) :
          equity_curve[t + 1] = initial_balance + PnlUpTo(trades, t)
    /\ idx > 0 =>
          equity_curve[idx] = initial_balance + SeqSum(PnlList(trades))
    /\ pc = "metrics" =>
          Abs((metrics.final_balance - initial_balance) - metrics.total_pnl)
             <= 400

\* metrics of a run with a losing and a winning trade whose equity moved
\* on two bars and whose rounded final balance is not the initial one
C39_Witness ==
    /\ pc = "metrics"
    /\ Len(trades) = 2
    /\ trades[1].pnl < 0
    /\ trades[2].pnl > 0
    /\ equity_curve[2] # equity_curve[1]
    /\ equity_curve[3] # equity_curve[2]
    /\ metrics.final_balance # initial_balance

\* C40: ATR is never negative and the multipliers are positive, so a trade
\* closed with reason SL has pnl <= 0 and a trade closed with reason TP has
\* pnl >= 0, LONG or SHORT; and a trade with pnl 0 was entered on a bar
\* whose ATR is 0.
C40_PnlSignByReason ==
    \A k \in 1..Len(trades) :
        /\ trades[k].reason \in {"SL", "TP"}
        /\ trades[k].reason = "SL" => trades[k].pnl <= 0
        /\ trades[k].reason = "TP" => trades[k].pnl >= 0
        /\ trades[k].pnl = 0 => BarRow(trades[k].entry_idx).atr = {0}
        /\ BarRow(trades[k].entry_idx).atr # {0} => trades[k].pnl # 0

\* a LONG stopped at a loss, then a LONG that took its profit
C40_Witness ==
    /\ Len(trades) = 2
    /\ trades[1].type = "BUY"
    /\ trades[1].reason = "SL"
    /\ trades[1].pnl < 0
    /\ trades[2].reason = "TP"
    /\ trades[2].pnl > 0


(***************************************************************************)
(* webhook_server.py: POST /webhook.  A body is the parsed form of the raw *)
(* bytes: its kind (a JSON object, a JSON array, another JSON value, or    *)
(* bytes that are not JSON) and the action items it holds.  HMAC-SHA256 is *)
(* taken as collision free: a digest is the pair of key and body it was    *)
(* computed from.  The X-Signature header is None when missing or empty.   *)
(***************************************************************************)
Keys == {"secret", "guess"}

Payload(kind, items) == [kind |-> kind, items |-> items]

\* action items a client posts, without and with a ts of its own
WebhookItems ==
    {Item("null", "order_send", Symbols[1], "BUY", "null", "null"),
     Item("t1", "close_position", "null", "null", "7", "null")}

Bodies ==
    {Payload("invalid", <<>>), Payload("scalar", <<>>),
     Payload("array", <<>>)}
    \cup {Payload("object", <<i>>) : i \in WebhookItems}
    \cup {Payload("array", <<i>>) : i \in WebhookItems}
    \cup {Payload("array", <<i, j>>) : i \in WebhookItems, j \in WebhookItems}

\* hmac.new(key, body, hashlib.sha256).hexdigest()
Hmac(key, body) == [key |-> key, body |-> body]

\* the X-Signature headers tried with a body: none, the digest under
\* either key, and a digest taken over another body
Signatures(body) ==
    {None} \cup {{Hmac(k, body)} : k \in Keys}
           \cup {{Hmac(k, Payload("array", <<>>))} : k \in Keys}

\* the files a request can find
FilesFound ==
    {None, {<<>>},
     {<<Item("t0", "modify_sl", "null", "null", "7", "1.0950")>>}}

verify_signature_nonempty(secret, body, signature) ==
    signature # None

\* verify_signature(secret, body, signature), lines 46-53
verify_signature(secret, body, signature) ==
    /\ signature # None
    /\ Hmac(Num(secret), body) = Num(signature)

\* append_proposed(items), lines 56-67: the file after the call
append_proposed(file, items) ==
    LET read == IF file = None THEN <<>> ELSE Num(file)
    IN  {read \o items}

\* an answer of the server
Response(status, count) == [status |-> status, count |-> count]

\* webhook(), lines 70-101: the answer and the file after the request.
\* Line 94 evaluates datetime.now(timezone.utc) for every item, and the
\* name timezone is not defined in the module (line 33 imports datetime
\* only): with one item or more the view raises NameError outside every
\* try and Flask answers 500.
webhook(secret, file, body, signature) ==
    IF secret = None
    THEN [response |-> Response(500, "null"), file |-> file]
    ELSE IF ~verify_signature(secret, body, signature)
    THEN [response |-> Response(401, "null"), file |-> file]
    ELSE IF body.kind \notin {"object", "array"}
    THEN [response |-> Response(400, "null"), file |-> file]
    ELSE IF body.items # <<>>
    THEN [response |-> Response(500, "null"), file |-> file]
    ELSE [response |-> Response(200, Len(body.items)),
          file |-> append_proposed(file, body.items)]

\* the server is started with or without WEBHOOK_SECRET in its environment
InitWebhook ==
    /\ pc = "webhook"
    /\ EngineIdle
    /\ BotIdle
    /\ WEBHOOK_SECRET \in {None, {"secret"}}
    /\ request = None
    /\ response = None
    /\ proposed_file \in FilesFound
    /\ file_before = None
    /\ executed_file = <<>>
    /\ read_items = <<>>
    /\ executed = <<>>
    /\ item_idx = 0
    /\ archive_before = <<>>
    /\ hook_pc = "idle"
    /\ existing = <<>>
    /\ written = {}
    /\ handled = <<>>
    /\ accepted = {}
    /\ EXPECTED_TOKEN = None
    /\ CONNECTED = {}
    /\ connections = <<>>
    /\ last_broadcast = None

\* one POST /webhook, answered
WebhookRequest ==
    /\ pc = "webhook"
    /\ \E body \in Bodies : \E signature \in Signatures(body) :
          LET r == webhook(WEBHOOK_SECRET, proposed_file, body, signature)
          IN  /\ request' = {[body |-> body, signature |-> signature]}
              /\ response' = {r.response}
              /\ file_before' = proposed_file
              /\ proposed_file' = r.file
    /\ UNCHANGED <<pc, WEBHOOK_SECRET, executed_file, read_items, executed,
                   item_idx, archive_before, hook_pc, existing, written, handled,
                   accepted, ws_state>>
    /\ UNCHANGED <<engine_state, bot_state>>

NextWebhook == WebhookRequest

SpecWebhook == InitWebhook /\ [][NextWebhook]_vars

\* the last request carried the HMAC-SHA256 of its body under the secret
\* the server was started with
CorrectlySigned ==
    /\ WEBHOOK_SECRET # None
    /\ Num(request).signature = {Hmac(Num(WEBHOOK_SECRET), Num(request).body)}

\* C31: the webhook server changes proposed_changes.json only for a request
\* whose X-Signature is the HMAC-SHA256 of the raw body under
\* WEBHOOK_SECRET; a request with a missing or wrong signature, and every
\* request while the secret is unset, is answered with an error status and
\* leaves the file as it was.
C31_OnlySignedRequestsWrite ==
    request # None =>
        /\ proposed_file # file_before => CorrectlySigned
        /\ ~CorrectlySigned =>
              /\ Num(response).status \in {401, 500}
              /\ Num(response).count = "null"
              /\ proposed_file = file_before
        /\ WEBHOOK_SECRET = None => Num(response).status = 500
        /\ (WEBHOOK_SECRET # None /\ ~CorrectlySigned) =>
              Num(response).status = 401

\* the server holds a secret and a request that carries an array of items
\* and a digest computed under another key has been turned away, the file
\* it found being still in place
C31_Witness ==
    /\ request # None
    /\ WEBHOOK_SECRET # None
    /\ Num(request).signature = {Hmac("guess", Num(request).body)}
    /\ Len(Num(request).body.items) = 2
    /\ Num(response).status = 401
    /\ proposed_file # None
    /\ proposed_file = file_before

\* C32: a correctly signed POST whose payload is one action object or an
\* array of action objects, with or without ts, appends all its items in
\* order after what proposed_changes.json held and is answered ok with
\* their count.
C32_SignedItemsAreAppended ==
    (/\ request # None
     /\ CorrectlySigned
     /\ Num(request).body.kind \in {"object", "array"}) =>
        /\ Num(response) = Response(200, Len(Num(request).body.items))
        /\ proposed_file # None
        /\ Len(Num(proposed_file)) =
              Len(IF file_before = None THEN <<>> ELSE Num(file_before))
              + Len(Num(request).body.items)
        /\ \A i \in DOMAIN Num(request).body.items :
              LET at == Len(Num(proposed_file))
                        - Len(Num(request).body.items) + i
                  sent == Num(request).body.items[i]
                  kept == Num(proposed_file)[at]
              IN  /\ kept.action = sent.action
                  /\ kept.symbol = sent.symbol
                  /\ kept.signal = sent.signal
                  /\ kept.position = sent.position
                  /\ kept.new_sl = sent.new_sl
                  /\ kept.ts # "null"
                  /\ sent.ts # "null" => kept.ts = sent.ts

(***************************************************************************)
(* The two files of proposed changes, step by step.  The bot calls         *)
(* execute_trade and process_proposed_changes one after the other;         *)
(* process_proposed_changes is followed from its read of the file through  *)
(* its loop, its write of the archive and its removal of the file.  In     *)
(* SpecFiles the bot is alone; in SpecRace append_proposed of              *)
(* webhook_server.py runs beside it, its read and its write being two      *)
(* steps.  save_proposed_change is one step of the bot.                    *)
(***************************************************************************)
MaxItems == 2

\* the ts of the items the webhook appends, one per item
WebTs == <<"w1", "w2", "w3", "w4">>

WebItem(n) == Item(WebTs[n], "order_send", Symbols[1], "BUY", "null", "null")

\* the files the bot finds when it starts; "abc" is a position that is
\* not a number
FilesAtStart ==
    {None, {<<>>},
     {<<Item("t0", "order_send", Symbols[1], "BUY", "null", "null")>>},
     {<<Item("t0", "note", "null", "null", "null", "null"),
        Item("t1", "close_position", "null", "null", "7", "null")>>},
     {<<Item("t0", "modify_sl", "null", "null", "abc", "1.0950"),
        Item("t1", "modify_sl", "null", "null", "7", "1.0950")>>}}

\* int(item.get("position")) or float(item.get("new_sl")) raises
\* ValueError, lines 904-905 and 917, outside the inner try
Raises(item) ==
    \/ /\ item.action \in {"modify_sl", "close_position"}
       /\ item.position = "abc"
    \/ /\ item.action = "modify_sl"
       /\ item.new_sl = "abc"

\* the content of proposed_changes.json, [] when there is no file
FileItems(file) == IF file = None THEN <<>> ELSE Num(file)

\* save_proposed_change(item) for each item of saved, lines 846-862
save_proposed_change(file, saved) ==
    IF saved = <<>> THEN file ELSE {FileItems(file) \o saved}

\* the elements of a sequence
Range(seq) == {seq[i] : i \in DOMAIN seq}

InitFiles ==
    /\ pc = "between"
    /\ EngineIdle
    /\ live_trading \in BOOLEAN
    /\ paper_trade \in BOOLEAN
    /\ DRY_RUN \in BOOLEAN
    /\ ONCE = FALSE
    /\ mt5 \in {None, {"MetaTrader5"}}
    /\ mt5_ready = FALSE
    /\ cycle = 0
    /\ sym_idx = 0
    /\ analyzed = <<>>
    /\ fetches = <<>>
    /\ failed_before = {}
    /\ proposed_changes = <<>>
    /\ archive = FALSE
    /\ order_send = {}
    /\ rates = <<>>
    /\ analysis = None
    /\ WEBHOOK_SECRET = None
    /\ request = None
    /\ response = None
    /\ proposed_file \in FilesAtStart
    /\ file_before = None
    /\ executed_file = <<>>
    /\ read_items = <<>>
    /\ executed = <<>>
    /\ item_idx = 0
    /\ archive_before = <<>>
    /\ hook_pc = "idle"
    /\ existing = <<>>
    /\ written = {}
    /\ handled = <<>>
    /\ accepted = {}
    /\ EXPECTED_TOKEN = None
    /\ CONNECTED = {}
    /\ connections = <<>>
    /\ last_broadcast = None

\* what the steps of the bot leave alone
outside_files == <<engine_state, webhook_state, ws_state, live_trading,
                   paper_trade, DRY_RUN, ONCE, mt5, mt5_ready, sym_idx,
                   analyzed, fetches, failed_before, proposed_changes,
                   archive, rates, analysis, hook_pc, existing, accepted>>

\* execute_trade(symbol, signal, ind) between two calls of
\* process_proposed_changes
ExecuteTrade ==
    /\ pc = "between"
    /\ Len(FileItems(proposed_file)) < MaxItems
    /\ \E sym \in SymbolSet : \E broker \in BrokerOutcomes :
          LET ex == execute_trade(sym, "BUY", broker)
          IN  /\ proposed_file' = save_proposed_change(proposed_file, ex.saved)
              /\ written' = written \cup Range(ex.saved)
              /\ order_send' = order_send \cup ex.sent
    /\ UNCHANGED <<pc, cycle, executed_file, read_items, executed, item_idx,
                   archive_before, handled>>
    /\ UNCHANGED outside_files

\* lines 873-886: the file is read; the call returns when there is no
\* file or no item
ProcessRead ==
    /\ pc = "between"
    /\ cycle < MaxCycles
    /\ cycle' = cycle + 1
    /\ read_items' = FileItems(proposed_file)
    /\ executed' = <<>>
    /\ item_idx' = 1
    /\ archive_before' = executed_file
    /\ pc' = IF FileItems(proposed_file) = <<>> THEN "between" ELSE "items"
    /\ UNCHANGED <<proposed_file, executed_file, written, handled,
                   order_send>>
    /\ UNCHANGED outside_files

\* lines 887-931: one turn of the loop; an item whose handling raises is
\* logged by the outer except and is not appended to executed
ProcessNext ==
    /\ pc = "items"
    /\ item_idx <= Len(read_items)
    /\ item_idx' = item_idx + 1
    /\ LET item == read_items[item_idx]
       IN  IF Raises(item)
           THEN UNCHANGED <<proposed_file, written, order_send, executed,
                            handled>>
           ELSE \E broker \in BrokerOutcomes :
                   LET ex == ProcessItem(item, broker)
                   IN  /\ proposed_file' =
                              save_proposed_change(proposed_file, ex.saved)
                       /\ written' = written \cup Range(ex.saved)
                       /\ order_send' = order_send \cup ex.sent
                       /\ executed' = Append(executed, item)
                       /\ handled' = Append(handled, item.ts)
    /\ UNCHANGED <<pc, cycle, executed_file, read_items, archive_before>>
    /\ UNCHANGED outside_files

\* lines 933-948: executed is appended to proposed_changes_executed.json
ProcessArchive ==
    /\ pc = "items"
    /\ item_idx > Len(read_items)
    /\ executed_file' = executed_file \o executed
    /\ pc' = "remove"
    /\ UNCHANGED <<cycle, proposed_file, read_items, executed, item_idx,
                   archive_before, written, handled, order_send>>
    /\ UNCHANGED outside_files

\* lines 950-955: proposed_changes.json is removed and the call returns
ProcessRemove ==
    /\ pc = "remove"
    /\ proposed_file' = None
    /\ pc' = "between"
    /\ UNCHANGED <<cycle, executed_file, read_items, executed, item_idx,
                   archive_before, written, handled, order_send>>
    /\ UNCHANGED outside_files

NextFiles ==
    \/ ExecuteTrade
    \/ ProcessRead
    \/ ProcessNext
    \/ ProcessArchive
    \/ ProcessRemove

SpecFiles == InitFiles /\ [][NextFiles]_vars

\* append_proposed(items), lines 57-65: the file is read and extended with
\* the items of a request that has not been served before
AppendRead ==
    /\ hook_pc = "idle"
    /\ \E n \in 1..MaxItems :
          /\ Cardinality(accepted) + n <= MaxItems
          /\ existing' = FileItems(proposed_file)
                \o [i \in 1..n |-> WebItem(Cardinality(accepted) + i)]
    /\ hook_pc' = "write"
    /\ UNCHANGED <<pc, accepted, proposed_file, executed_file, read_items,
                   executed, item_idx, archive_before, written, handled>>
    /\ UNCHANGED <<engine_state, bot_state, webhook_state, ws_state>>

\* append_proposed(items), lines 66-67: the extended list is written
AppendWrite ==
    /\ hook_pc = "write"
    /\ proposed_file' = {existing}
    /\ accepted' = accepted \cup
          {WebTs[n] : n \in {m \in 1..MaxItems :
                                \E i \in DOMAIN existing :
                                   existing[i].ts = WebTs[m]}}
    /\ hook_pc' = "idle"
    /\ UNCHANGED <<pc, existing, executed_file, read_items, executed,
                   item_idx, archive_before, written, handled>>
    /\ UNCHANGED <<engine_state, bot_state, webhook_state, ws_state>>

\* the bot and the webhook server are started with no file in place
InitRace ==
    /\ InitFiles
    /\ proposed_file = None
    /\ ~paper_trade
    /\ ~DRY_RUN
    /\ mt5 # None

\* the calls of process_proposed_changes, with the save_proposed_change
\* calls they make, beside the calls of append_proposed
NextRace ==
    \/ ProcessRead
    \/ ProcessNext
    \/ ProcessArchive
    \/ ProcessRemove
    \/ AppendRead
    \/ AppendWrite

SpecRace == InitRace /\ [][NextRace]_vars

\* C33: when a call of process_proposed_changes that found items in
\* proposed_changes.json returns, every item it read, whatever its action,
\* has been appended to proposed_changes_executed.json after what the
\* archive held, and proposed_changes.json is gone, so that a later cycle
\* finds none of these items.
C33_ReadItemsAreArchived ==
    [][(pc = "remove" /\ pc' = "between") =>
          /\ executed_file' = archive_before \o read_items
          /\ proposed_file' = None]_vars

\* how often a ts occurs in handled
TimesHandled(ts) == Cardinality({i \in DOMAIN handled : handled[i] = ts})

\* the items process_proposed_changes has read and not yet handled
StillToHandle ==
    IF pc = "items"
    THEN {read_items[i] : i \in item_idx..Len(read_items)}
    ELSE {}

\* C35: under every interleaving of append_proposed with
\* process_proposed_changes and save_proposed_change, an action the webhook
\* has written is handled by the bot exactly once: it is never handled
\* twice, and until it is handled it is in proposed_changes.json or among
\* the items the bot has read and still goes through.
C35_AcceptedHandledOnce ==
    \A ts \in accepted :
       /\ TimesHandled(ts) <= 1
       /\ \/ TimesHandled(ts) = 1
          \/ \E item \in Range(FileItems(proposed_file)) \cup StillToHandle :
                item.ts = ts

\* C36: between the calls of execute_trade and process_proposed_changes of
\* one bot process, every record save_proposed_change has written is in
\* proposed_changes.json or in proposed_changes_executed.json; the
\* simulated_execution records written while order_send items are handled
\* outlive the removal of the processed file.
C36_SavedRecordsAreKept ==
    pc = "between" =>
       \A record \in written :
          record \in Range(FileItems(proposed_file)) \cup Range(executed_file)

(***************************************************************************)
(* ws_server.py.  The server runs on one asyncio event loop: a handler     *)
(* runs without interruption between two awaits, so the token check with   *)
(* CONNECTED.add, the receipt of a message with the loop of broadcast, and *)
(* the finally clause are one step each.  A broadcast is followed up to    *)
(* the send tasks it creates; asyncio.create_task does not raise inside a  *)
(* running loop, so the except of lines 72-73 is not taken.                *)
(***************************************************************************)
Clients == {"bot", "dash1", "dash2"}

\* the token of the query string: None when there is none
Tokens == {None, {"tok"}, {"bad"}}

Messages == {"tick"}

\* a connection: the token it came with and where its handler is: "none"
\* before it is opened, "rejected", "serving", and "closed" or "failed"
\* once the handler has ended
Connection(token, at) == [token |-> token, at |-> at]

Admitted_any(expected, token) == TRUE

\* line 42: the connection goes on when no token is configured or the
\* token is the configured one
Admitted(expected, token) == expected = None \/ token = expected

broadcast_all(connected, sender) == connected

\* broadcast(message, sender), lines 63-75: the connections a send task is
\* created for, the sender being skipped by the loop
broadcast(connected, sender) == {c \in connected : c # sender}

\* the server is started with or without ws_server_token in config.yaml
InitWs ==
    /\ pc = "ws"
    /\ EngineIdle
    /\ BotIdle
    /\ WEBHOOK_SECRET = None
    /\ request = None
    /\ response = None
    /\ proposed_file = None
    /\ file_before = None
    /\ executed_file = <<>>
    /\ read_items = <<>>
    /\ executed = <<>>
    /\ item_idx = 0
    /\ archive_before = <<>>
    /\ hook_pc = "idle"
    /\ existing = <<>>
    /\ written = {}
    /\ handled = <<>>
    /\ accepted = {}
    /\ EXPECTED_TOKEN \in {None, {"tok"}}
    /\ CONNECTED = {}
    /\ connections = [c \in Clients |-> Connection(None, "none")]
    /\ last_broadcast = None

outside_ws == <<pc, engine_state, bot_state, webhook_state, files_state,
                EXPECTED_TOKEN>>

\* handler(ws, path), lines 36-51: a connection is opened; it is closed
\* with code 4001 or added to CONNECTED
Connect ==
    /\ \E c \in Clients : \E token \in Tokens :
          /\ connections[c].at = "none"
          /\ IF Admitted(EXPECTED_TOKEN, token)
             THEN /\ CONNECTED' = CONNECTED \cup {c}
                  /\ connections' =
                        [connections EXCEPT ![c] = Connection(token, "serving")]
             ELSE /\ CONNECTED' = CONNECTED
                  /\ connections' =
                        [connections EXCEPT ![c] = Connection(token, "rejected")]
    /\ UNCHANGED last_broadcast
    /\ UNCHANGED outside_ws

\* lines 53-56: a message arrives on a connection that is served and is
\* broadcast
Receive ==
    /\ \E c \in Clients : \E message \in Messages :
          /\ connections[c].at = "serving"
          /\ last_broadcast' =
                {[sender |-> c, message |-> message, connected |-> CONNECTED,
                  to_send |-> broadcast(CONNECTED, c)]}
    /\ UNCHANGED <<CONNECTED, connections>>
    /\ UNCHANGED outside_ws

\* lines 57-61: the handler ends, the peer having closed the connection or
\* an exception having been raised, and the finally clause runs
Disconnect ==
    /\ \E c \in Clients : \E how \in {"closed", "failed"} :
          /\ connections[c].at = "serving"
          /\ CONNECTED' = CONNECTED \ {c}
          /\ connections' = [connections EXCEPT ![c].at = how]
    /\ UNCHANGED last_broadcast
    /\ UNCHANGED outside_ws

NextWs ==
    \/ Connect
    \/ Receive
    \/ Disconnect

SpecWs == InitWs /\ [][NextWs]_vars

\* C34: a message received from a connected client is sent to every other
\* client that is in CONNECTED at that moment and never to its sender; when
\* the sender is the only client connected nothing is sent.
C34_BroadcastToOthers ==
    last_broadcast # None =>
        LET b == Num(last_broadcast)
        IN  /\ \A c \in b.connected : c # b.sender => c \in b.to_send
            /\ b.sender \notin b.to_send
            /\ b.to_send \subseteq b.connected
            /\ b.connected = {b.sender} => b.to_send = {}

\* a message has gone to both other clients while three were connected
C34_Witness ==
    /\ last_broadcast # None
    /\ Num(last_broadcast).connected = Clients
    /\ Cardinality(Num(last_broadcast).to_send) = 2

\* C37: CONNECTED holds only connections that passed the token check, when
\* a token is configured, and whose handler is still running; a connection
\* with a missing or wrong token is never in CONNECTED and no broadcast
\* goes to it; a connection is out of CONNECTED once its handler has ended
\* by close or by error.
C37_ConnectedAreAdmittedAndServed ==
    /\ \A c \in CONNECTED :
          /\ connections[c].at = "serving"
          /\ EXPECTED_TOKEN # None => connections[c].token = EXPECTED_TOKEN
    /\ \A c \in Clients :
          /\ connections[c].at \in {"rejected", "closed", "failed"} =>
                c \notin CONNECTED
          /\ (connections[c].at = "rejected" /\ last_broadcast # None) =>
                c \notin Num(last_broadcast).to_send
          /\ (/\ EXPECTED_TOKEN # None
              /\ connections[c].at # "none"
              /\ connections[c].token # EXPECTED_TOKEN) =>
                connections[c].at = "rejected"

\* with a token configured, one connection came without a token and one
\* with a wrong one, and a message of a third was broadcast after that; a
\* connection that was served has ended by an error
C37_Witness ==
    /\ EXPECTED_TOKEN # None
    /\ connections["dash1"] = Connection(None, "rejected")
    /\ connections["dash2"] = Connection({"bad"}, "rejected")
    /\ connections["bot"].at = "failed"
    /\ last_broadcast # None
    /\ Num(last_broadcast).connected = {"bot"}
====
